---- MODULE Spec2Model ----
(***************************************************************************)
(* Model of the kotlineum reactive store:                                  *)
(*   - StateFlowRegistry / GlobalStateFlow   (src/src/GlobalStateFlow.ts)  *)
(*   - local StateFlow                       (src/unnamed/part_022)        *)
(*   - ListStateFlow                         (src/unnamed/part_021)        *)
(* The host is a browser: one thread, promise reactions (microtasks) run   *)
(* before any timer, `typeof window !== 'undefined'` is true.              *)
(***************************************************************************)
EXTENDS Integers, Sequences, FiniteSets, TLC

---------------------------------------------------------------------------
(* Bounds of the model *)

MaxVal == 1          \* cell values are the numbers 0..MaxVal
MaxOps == 3          \* API calls the application issues on plain cells
MaxOpsReg == 3       \* API calls the application issues on persisted cells
MaxOpsList == 4      \* API calls the application issues on a list
MaxOpsSub == 4       \* API calls the application issues on existing cells
DebounceTime == 2    \* options.debounceTime in clock ticks

Values == 0..MaxVal

\* registry keys used by the application for scalar cells
Keys == {"k1", "k2"}

\* subscriber ids and callbacks handed to subscribe()
SubIds == {"s1", "s2"}
Callbacks == {"cb1", "cb2", "cbThrow"}

\* the callbacks that throw when they are invoked
Throws(cb) == cb \in {"cbThrow", "icbThrow", "acbThrow", "ocThrow"}

Undefined == "undefined"
\* the default database name of the persistence options
DbName == "kotlineum_state"
\* the default object store name, and one an application chooses
StoreName == "state_store"
OtherStoreName == "other_store"

---------------------------------------------------------------------------
(* JavaScript helpers *)

\* Map.prototype.set on an insertion-ordered map kept as a sequence of
\* [uniqueId, callback] entries: an existing key keeps its position.
MapSet(m, id, cb) ==
  IF \E i \in 1..Len(m) : m[i].uniqueId = id
  THEN [i \in 1..Len(m) |-> IF m[i].uniqueId = id
                            THEN [uniqueId |-> id, callback |-> cb]
                            ELSE m[i]]
  ELSE Append(m, [uniqueId |-> id, callback |-> cb])

\* Map.prototype.delete
MapDelete(m, id) == SelectSeq(m, LAMBDA e : e.uniqueId # id)

MapHas(m, id) == \E i \in 1..Len(m) : m[i].uniqueId = id

\* Map.prototype.get: the callback held under id, undefined if there is none
MapGet(m, id) ==
  IF MapHas(m, id)
  THEN m[CHOOSE i \in 1..Len(m) : m[i].uniqueId = id].callback
  ELSE "undefined"

\* JSON.stringify / JSON.parse on the numbers the model uses
Digits == <<"0", "1", "2", "3", "4", "5", "6", "7", "8", "9">>
JSONstringify(v) == Digits[v + 1]

\* the key of the list; its items have a numeric id and a name
ListKey == "L"
ItemIds == {1, 2}
Names == {"a", "b"}
Items == [id : ItemIds, name : Names]

\* JSON.stringify on an item and on an array of items
JSONstringifyItem(item) ==
  "{\"id\":" \o Digits[item.id + 1] \o ",\"name\":\"" \o item.name \o "\"}"
RECURSIVE JSONjoin(_)
JSONjoin(list) ==
  IF list = <<>> THEN ""
  ELSE IF Len(list) = 1 THEN JSONstringifyItem(list[1])
  ELSE JSONstringifyItem(Head(list)) \o "," \o JSONjoin(Tail(list))
JSONstringifyList(list) == "[" \o JSONjoin(list) \o "]"

\* the arrays whose text JSON.parse is given in this model
MaxStored == 2
StorableLists == UNION {[1..n -> Items] : n \in 0..MaxStored}

\* JSON.parse: the number or the array whose text s is; it throws a
\* SyntaxError on any other text
IsDigit(s) == \E i \in 1..Len(Digits) : Digits[i] = s
JSONparse(s) ==
  IF IsDigit(s) THEN (CHOOSE i \in 1..Len(Digits) : Digits[i] = s) - 1
  ELSE CHOOSE list \in StorableLists : JSONstringifyList(list) = s
JSONparseThrows(s) ==
  /\ ~IsDigit(s)
  /\ \A list \in StorableLists : JSONstringifyList(list) # s

\* options.serialize(value) for the cell of key: the main cell of the list
\* holds an array, every other persisted cell a number
Serialize(key, value) ==
  IF key = ListKey THEN JSONstringifyList(value) ELSE JSONstringify(value)

\* index of the first entry whose callback throws, 0 if none does
FirstThrow(m) ==
  IF \E i \in 1..Len(m) : Throws(m[i].callback)
  THEN CHOOSE i \in 1..Len(m) :
         /\ Throws(m[i].callback)
         /\ \A j \in 1..(i - 1) : ~Throws(m[j].callback)
  ELSE 0

\* append v to the log of every callback of the entries m, in order
RECURSIVE DeliverAll(_, _, _)
DeliverAll(d, m, v) ==
  IF m = <<>> THEN d
  ELSE DeliverAll([d EXCEPT ![Head(m).callback] = Append(@, v)], Tail(m), v)

\* the invocations a forEach over the entries m makes with v, in order
Invocations(m, v) ==
  [i \in 1..Len(m) |-> [callback |-> m[i].callback, arg |-> v]]

---------------------------------------------------------------------------
(* State *)

VARIABLES
  flows,                    \* StateFlowRegistry.flows: key -> cell
  persistOptions,           \* StateFlowRegistry.persistOptions: key -> options
  debouncedSaveFunctions,   \* keys that own a debounced save function
  timeout,                  \* debounce closures: key -> pending timer
  hydrate,                  \* pending loadFromStorage promises: key -> result
  localStorage,             \* window.localStorage: storage key -> text
  age,                      \* key -> clock ticks since the last update()
  nextCell,                 \* identity given to the next cell object
  local,                    \* one cell made by StateFlow(initialValue)
  itemStateFlows,           \* ListStateFlow.itemStateFlows: id -> cell's key
  pendingItemSubscriptions, \* ListStateFlow.pendingItemSubscriptions
  itemAdditionCallbacks,    \* ListStateFlow.itemAdditionCallbacks
  eventSubscribers,         \* ListStateFlow.eventSubscribers
  emitEvents,               \* ListStateFlow.emitEvents
  secondHandle,             \* a second ListStateFlow made for the same key
  jobs,                     \* the Job objects of the coroutine emulation
  pendingClosures,          \* closures returned by subscribeToItem (pending)
  delivered,                \* callback -> what it was invoked with, in order
  writes,                   \* backend writes issued, in order
  returned,                 \* key -> identities GlobalStateFlow returned
  firstInit,                \* key -> initialValue of the first call
  updated,                  \* keys whose cell had update() called
  lastUpdate,               \* key -> value of the last update() call on its
                            \*        cell, and the writes issued since
  lastOp,                   \* the call made last
  calls,                    \* callbacks the last step invoked, in order
  emitted,                  \* events the registry's emitEvent was called
                            \*        with in the last step, in order
  tornDown,                 \* the ids removeItem was called with, and the
                            \*        list's key once dispose() was called
  idb,                      \* IndexedDBUtil.openConnections, the browser's
                            \*        IndexedDB requests and object store
  nops                      \* application calls left to issue

vars == <<nops, flows, persistOptions, debouncedSaveFunctions, timeout,
          hydrate, localStorage, age, nextCell, local, itemStateFlows,
          pendingItemSubscriptions, itemAdditionCallbacks, eventSubscribers,
          emitEvents, secondHandle, jobs,
          pendingClosures, delivered, writes, returned, firstInit, updated,
          lastUpdate, lastOp, calls, emitted, idb, tornDown>>

\* the empty Map
EmptyMap == [x \in {} |-> 0]

\* no second ListStateFlow has been constructed
NoHandle == [itemStateFlows |-> EmptyMap]

\* no Job has been constructed
NoJobs == EmptyMap

\* Map.set / Map.delete on maps kept as functions (their order is never read)
FnSet(f, k, v) == [x \in (DOMAIN f) \cup {k} |-> IF x = k THEN v ELSE f[x]]
FnDelete(f, k) == [x \in (DOMAIN f) \ {k} |-> f[x]]

\* What one call works on: the state it reads and writes, and whether an
\* exception is propagating (then the rest of the call is skipped).
St ==
  [flows |-> flows, persistOptions |-> persistOptions,
   debouncedSaveFunctions |-> debouncedSaveFunctions, timeout |-> timeout,
   hydrate |-> hydrate, nextCell |-> nextCell, local |-> local,
   itemStateFlows |-> itemStateFlows,
   pendingItemSubscriptions |-> pendingItemSubscriptions,
   pendingClosures |-> pendingClosures,
   delivered |-> delivered, returned |-> returned, firstInit |-> firstInit,
   updated |-> updated, lastUpdate |-> lastUpdate, age |-> age,
   idb |-> idb, tornDown |-> tornDown, calls |-> <<>>, emitted |-> <<>>,
   threw |-> FALSE]

Commit(st) ==
  /\ flows' = st.flows
  /\ persistOptions' = st.persistOptions
  /\ debouncedSaveFunctions' = st.debouncedSaveFunctions
  /\ timeout' = st.timeout
  /\ hydrate' = st.hydrate
  /\ nextCell' = st.nextCell
  /\ local' = st.local
  /\ itemStateFlows' = st.itemStateFlows
  /\ pendingItemSubscriptions' = st.pendingItemSubscriptions
  /\ pendingClosures' = st.pendingClosures
  /\ delivered' = st.delivered
  /\ returned' = st.returned
  /\ firstInit' = st.firstInit
  /\ updated' = st.updated
  /\ lastUpdate' = st.lastUpdate
  /\ age' = st.age
  /\ calls' = st.calls
  /\ emitted' = st.emitted
  /\ idb' = st.idb
  /\ tornDown' = st.tornDown

\* the record kept of the last call
Op(name, key, id, cb, arg, threw) ==
  [op |-> name, key |-> key, id |-> id, cb |-> cb, arg |-> arg,
   threw |-> threw]

---------------------------------------------------------------------------
(* StateFlowRegistry: src/src/GlobalStateFlow.ts *)

\* The persistOptions argument of GlobalStateFlow: absent, or an object
\* whose `enabled` is true, false or left out.  The other options are left
\* out by the callers of this model, so the defaults apply: localStorage
\* backend, JSON codec, storageKey = key.
NoOptions ==
  [given |-> FALSE, enabled |-> Undefined, storageType |-> Undefined]
PersistInputs ==
  {NoOptions} \cup [given : {TRUE}, enabled : {"true", "false", Undefined},
                    storageType : {Undefined}]

\* `persistOptions && persistOptions.enabled !== false`
PersistenceRequested(o) == o.given /\ o.enabled # "false"

\* the options object stored for a key
NormalizedOptions(key, o) ==
  [storageKey |-> key,
   enabled |-> (o.enabled # "false"),
   storageType |-> IF o.storageType = Undefined THEN "localStorage"
                   ELSE o.storageType,
   dbName |-> DbName,
   storeName |-> IF "storeName" \in DOMAIN o THEN o.storeName ELSE StoreName,
   debounceTime |-> DebounceTime,
   emitEvents |-> TRUE]

\* loadFromStorage, localStorage branch: the read and the deserialize run
\* inside the call; the promise it returns settles in a later microtask.
\* It is rejected when deserialize throws (the catch block rethrows).
LoadRejected == [present |-> FALSE, value |-> 0, rejected |-> TRUE]
LoadFromStorage(options) ==
  IF /\ options.storageKey \in DOMAIN localStorage
     /\ localStorage[options.storageKey] # ""
  THEN IF JSONparseThrows(localStorage[options.storageKey])
       THEN LoadRejected
       ELSE [present |-> TRUE,
             value |-> JSONparse(localStorage[options.storageKey]),
             rejected |-> FALSE]
  ELSE [present |-> FALSE, value |-> 0, rejected |-> FALSE]

\* loadFromStorage calls options.deserialize when a non-empty text is stored
DeserializeCalled(options) ==
  /\ options.storageKey \in DOMAIN localStorage
  /\ localStorage[options.storageKey] # ""

\* persistOptions.deserialize is JSON.parse unless the caller passes a
\* function.  The function passed here is
\*   text => { GlobalStateFlow(key, initialValue); return JSON.parse(text) }
\* for the key of the cell under construction.
Reenters(o) == "deserialize" \in DOMAIN o

\* IndexedDBUtil and the browser's IndexedDB.  `opened` lists the database
\* name of every connection indexedDB.open has delivered, in order (the
\* connection's identity is its position); `opening` holds the open requests
\* not yet answered, `inflight` the get/put requests not yet answered, each
\* with the caller that waits for it.  `supported` tells whether the
\* environment has window.indexedDB.  `version` is 0 until the database
\* exists, `objectStores` holds the names of its object stores, and `store`
\* maps <<store name, key>> to the text stored.
EmptyIdb ==
  [openConnections |-> EmptyMap, opening |-> <<>>, inflight |-> <<>>,
   opened |-> <<>>, store |-> EmptyMap, supported |-> TRUE,
   version |-> 0, objectStores |-> {}]

\* db.transaction(storeName, mode) throws when the database has no object
\* store of that name
TransactionThrows(db, waiter) == waiter.storeName \notin db.objectStores

\* the transaction and the store request getValue / setValue make once they
\* hold the connection; when the transaction throws, the catch block
\* rejects and no request is made
IdbRequest(db, conn, waiter) ==
  IF TransactionThrows(db, waiter) THEN db
  ELSE [db EXCEPT !.inflight = Append(@, [conn |-> conn, waiter |-> waiter])]

\* IndexedDBUtil.openDatabase for a caller that goes on with `waiter`
\* openDatabase rejects at once: no pooled connection and no window.indexedDB
OpenRejects(db, options) ==
  \/ options.dbName \notin DOMAIN db.openConnections /\ ~db.supported
  \/ /\ options.dbName \in DOMAIN db.openConnections
     /\ options.storeName \notin db.objectStores

OpenDatabase(db, dbName, waiter) ==
  IF dbName \in DOMAIN db.openConnections
  THEN IdbRequest(db, db.openConnections[dbName], waiter)
  ELSE IF ~db.supported THEN db
  ELSE [db EXCEPT !.opening = Append(@, [dbName |-> dbName,
                                         waiter |-> waiter])]

\* IndexedDBUtil.getValue called by loadFromStorage for the cell of key
IdbGetValue(db, key, options) ==
  OpenDatabase(db, options.dbName,
               [kind |-> "get", key |-> key, storeName |-> options.storeName,
                storageKey |-> options.storageKey, text |-> ""])

\* IndexedDBUtil.setValue called by saveToStorage for the cell of key
IdbSetValue(db, key, options, serialized) ==
  OpenDatabase(db, options.dbName,
               [kind |-> "put", key |-> key, storeName |-> options.storeName,
                storageKey |-> options.storageKey, text |-> serialized])

\* the event objects the registry emits (the timestamp is left out)
Event(type, key, value) == [type |-> type, key |-> key, value |-> value]

\* this.flows.has(key)
RegistryHasAlwaysMiss(st, key) == FALSE
RegistryHas(st, key) == key \in DOMAIN st.flows

\* getOrCreate
GetOrCreateReconfigures(st, key, initialValue, o) ==
  LET req == PersistenceRequested(o)
      opts == NormalizedOptions(key, o)
  IN IF RegistryHas(st, key)
     THEN [st EXCEPT
             !.returned[key] = @ \cup {st.flows[key].cell},
             !.persistOptions = IF o.given THEN FnSet(@, key, opts) ELSE @,
             !.debouncedSaveFunctions = IF req THEN @ \cup {key} ELSE @,
             !.hydrate = IF req /\ opts.storageType = "localStorage"
                         THEN FnSet(@, key, LoadFromStorage(opts))
                         ELSE IF req /\ OpenRejects(st.idb, opts)
                         THEN FnSet(@, key, LoadRejected)
                         ELSE @,
             !.idb = IF req /\ opts.storageType = "indexedDB"
                     THEN IdbGetValue(@, key, opts) ELSE @]
     ELSE
       LET cell == [cell |-> st.nextCell, currentValue |-> initialValue,
                    subscribers |-> <<>>]
           before == IF key \in DOMAIN st.returned THEN st.returned[key]
                     ELSE {}
       IN [st EXCEPT
             !.persistOptions = IF o.given THEN FnSet(@, key, opts) ELSE @,
             !.debouncedSaveFunctions = IF req THEN @ \cup {key} ELSE @,
             !.hydrate = IF req /\ opts.storageType = "localStorage"
                         THEN FnSet(@, key, LoadFromStorage(opts))
                         ELSE IF req /\ OpenRejects(st.idb, opts)
                         THEN FnSet(@, key, LoadRejected)
                         ELSE @,
             !.idb = IF req /\ opts.storageType = "indexedDB"
                     THEN IdbGetValue(@, key, opts) ELSE @,
             !.flows = FnSet(@, key, cell),
             !.nextCell = @ + 1,
             !.returned = FnSet(@, key, before \cup {st.nextCell}),
             !.firstInit = IF key \in DOMAIN @ THEN @
                           ELSE FnSet(@, key, initialValue)]
RECURSIVE GetOrCreate(_, _, _, _)
GetOrCreate(st, key, initialValue, o) ==
  IF RegistryHas(st, key)
  THEN [st EXCEPT !.returned[key] = @ \cup {st.flows[key].cell}]
  ELSE
    LET req == PersistenceRequested(o)
        opts == NormalizedOptions(key, o)
        \* loadFromStorage runs options.deserialize inside this call, before
        \* this.flows.set(key, stateFlow)
        stIn == IF /\ req
                   /\ opts.storageType = "localStorage"
                   /\ DeserializeCalled(opts)
                   /\ Reenters(o)
                THEN GetOrCreate(
                       [st EXCEPT
                          !.persistOptions = FnSet(@, key, opts),
                          !.debouncedSaveFunctions = @ \cup {key}],
                       key, o.deserialize.initialValue, NoOptions)
                ELSE st
        cell == [cell |-> stIn.nextCell, currentValue |-> initialValue,
                 subscribers |-> <<>>]
        before == IF key \in DOMAIN stIn.returned THEN stIn.returned[key]
                  ELSE {}
    IN [stIn EXCEPT
          !.persistOptions = IF o.given THEN FnSet(@, key, opts) ELSE @,
          !.debouncedSaveFunctions = IF req THEN @ \cup {key} ELSE @,
          !.hydrate = IF req /\ opts.storageType = "localStorage"
                      THEN FnSet(@, key, LoadFromStorage(opts))
                      ELSE IF req /\ OpenRejects(st.idb, opts)
                      THEN FnSet(@, key, LoadRejected)
                      ELSE @,
          !.idb = IF req /\ opts.storageType = "indexedDB"
                  THEN IdbGetValue(@, key, opts) ELSE @,
          !.flows = FnSet(@, key, cell),
          !.nextCell = @ + 1,
          !.returned = FnSet(@, key, before \cup {stIn.nextCell}),
          !.firstInit = IF key \in DOMAIN @ THEN @
                        ELSE FnSet(@, key, initialValue)]

\* the function debounce() returns, called with value: clearTimeout of the
\* pending timer, setTimeout(later, wait)
DebouncedSave(st, key, value) ==
  [st EXCEPT !.timeout =
     FnSet(@, key, [arg |-> value,
                    wait |-> st.persistOptions[key].debounceTime])]

\* the subscribers a fan-out reaches without try/catch: up to and including
\* the first one that throws
ReachedNoCatch(m) ==
  IF FirstThrow(m) = 0 THEN m ELSE SubSeq(m, 1, FirstThrow(m))

\* stateFlow.subscribe of a registry cell
StateFlowSubscribeNoReplay(st, key, uniqueId, callback) ==
  [st EXCEPT !.flows[key].subscribers = MapSet(@, uniqueId, callback)]
StateFlowSubscribe(st, key, uniqueId, callback) ==
  IF st.threw THEN st
  ELSE [st EXCEPT
          !.flows[key].subscribers = MapSet(@, uniqueId, callback),
          !.delivered[callback] = Append(@, st.flows[key].currentValue),
          !.calls = Append(@, [callback |-> callback,
                               arg |-> st.flows[key].currentValue]),
          !.threw = Throws(callback)]

\* stateFlow.unsubscribe of a registry cell
StateFlowUnsubscribeKeeps(st, key, uniqueId) == st
StateFlowUnsubscribe(st, key, uniqueId) ==
  IF st.threw THEN st
  ELSE [st EXCEPT !.flows[key].subscribers = MapDelete(@, uniqueId)]

\* stateFlow.update of a registry cell
StateFlowUpdateNoNotify(st, key, newValue) ==
  IF st.threw THEN st
  ELSE [st EXCEPT !.flows[key].currentValue = newValue,
                  !.updated = @ \cup {key}]
StateFlowUpdate(st, key, newValue) ==
  IF st.threw THEN st
  ELSE
    LET subs == st.flows[key].subscribers
        st1 == [st EXCEPT
                  !.flows[key].currentValue = newValue,
                  !.delivered = DeliverAll(@, ReachedNoCatch(subs), newValue),
                  !.calls = @ \o Invocations(ReachedNoCatch(subs), newValue),
                  !.updated = @ \cup {key},
                  !.lastUpdate = FnSet(@, key, [value |-> newValue,
                                                writes |-> 0]),
                  !.age = IF key \in st.debouncedSaveFunctions
                          THEN FnSet(@, key, 0) ELSE @]
    IN IF FirstThrow(subs) # 0 THEN [st1 EXCEPT !.threw = TRUE]
       ELSE IF /\ key \in DOMAIN st.persistOptions
               /\ st.persistOptions[key].enabled
               /\ key \in st.debouncedSaveFunctions
            THEN DebouncedSave(st1, key, newValue)
            ELSE st1

\* stateFlow.dispose of a registry cell
StateFlowDispose(st, key) ==
  IF st.threw THEN st
  ELSE [st EXCEPT !.flows[key].subscribers = <<>>]

---------------------------------------------------------------------------
(* local StateFlow: src/unnamed/part_022 *)

EventCallbacks == {"ev1"}

\* StateFlow(initialValue)
NewStateFlow(initialValue) ==
  [currentValue |-> initialValue, subscribers |-> <<>>,
   eventSubscribers |-> <<>>]

\* subscribe
LocalSubscribe(st, uniqueId, callback) ==
  [st EXCEPT
     !.local.subscribers = MapSet(@, uniqueId, callback),
     !.delivered[callback] = Append(@, st.local.currentValue),
     !.calls = Append(@, [callback |-> callback,
                          arg |-> st.local.currentValue]),
     !.threw = Throws(callback)]

\* update: every subscriber is called inside try/catch, then the
\* VALUE_UPDATED event goes to the event subscribers, inside try/catch too
LocalUpdateNoCatch(st, newValue) ==
  [st EXCEPT
     !.local.currentValue = newValue,
     !.delivered = DeliverAll(@, ReachedNoCatch(st.local.subscribers),
                              newValue),
     !.calls = @ \o Invocations(ReachedNoCatch(st.local.subscribers),
                                newValue)]
LocalUpdate(st, newValue) ==
  LET ev == [type |-> "VALUE_UPDATED", key |-> "stateflow",
             value |-> newValue]
      d1 == DeliverAll(st.delivered, st.local.subscribers, newValue)
  IN [st EXCEPT
        !.local.currentValue = newValue,
        !.delivered = DeliverAll(d1, st.local.eventSubscribers, ev),
        !.calls = @ \o Invocations(st.local.subscribers, newValue)
                    \o Invocations(st.local.eventSubscribers, ev)]

---------------------------------------------------------------------------
(* The registry, its cells and one local cell under an application that    *)
(* creates, subscribes, updates and unsubscribes; the promise of every     *)
(* hydrate read and the debounce timers run when the event loop gets to    *)
(* them.                                                                   *)

RegCallbacks == Callbacks \cup EventCallbacks

InitListless ==
  /\ itemStateFlows = EmptyMap
  /\ pendingItemSubscriptions = EmptyMap
  /\ itemAdditionCallbacks = <<>>
  /\ eventSubscribers = <<>>
  /\ emitEvents = TRUE
  /\ secondHandle = NoHandle
  /\ jobs = NoJobs
  /\ pendingClosures = {}

InitRegistry ==
  /\ flows = EmptyMap
  /\ persistOptions = EmptyMap
  /\ debouncedSaveFunctions = {}
  /\ timeout = EmptyMap
  /\ hydrate = EmptyMap
  /\ age = EmptyMap
  /\ nextCell = 1
  /\ writes = <<>>
  /\ returned = EmptyMap
  /\ firstInit = EmptyMap
  /\ updated = {}
  /\ lastUpdate = EmptyMap
  /\ lastOp = Op("none", "", "", "", 0, FALSE)
  /\ calls = <<>>
  /\ emitted = <<>>
  /\ idb = EmptyIdb
  /\ tornDown = {}

\* an empty registry, one local cell, nothing stored
InitCell ==
  /\ InitRegistry
  /\ InitListless
  /\ localStorage = EmptyMap
  /\ local \in {NewStateFlow(v) : v \in Values}
  /\ delivered = [c \in RegCallbacks |-> <<>>]
  /\ nops = MaxOps

\* an empty registry; an earlier session may have stored a value under k1
InitReg ==
  /\ InitRegistry
  /\ InitListless
  /\ localStorage \in {EmptyMap, [x \in {"k1"} |-> JSONstringify(MaxVal)]}
  /\ local = NewStateFlow(0)
  /\ delivered = [c \in RegCallbacks |-> <<>>]
  /\ nops = MaxOpsReg

\* what a call leaves alone besides the state it works on
Call(st, op) ==
  /\ nops > 0
  /\ Commit(st)
  /\ lastOp' = op
  /\ nops' = nops - 1
  /\ UNCHANGED <<localStorage, itemAdditionCallbacks, eventSubscribers,
                 emitEvents, secondHandle, jobs,
                 writes>>

\* GlobalStateFlow(key, initialValue, persistOptions); the record of the call
\* keeps the options argument
CallGlobalStateFlow(key, initialValue, o) ==
  Call(GetOrCreate(St, key, initialValue, o),
       Op("GlobalStateFlow", key, "", "", initialValue, FALSE)
         @@ [options |-> o])

\* flow.subscribe(uniqueId, callback) on the cell of key; the record of the
\* call keeps the callback that was held under uniqueId before
CallSubscribe(key, uniqueId, callback) ==
  /\ key \in DOMAIN flows
  /\ LET st == StateFlowSubscribe(St, key, uniqueId, callback)
     IN Call(st, Op("subscribe", key, uniqueId, callback,
                    MapGet(flows[key].subscribers, uniqueId), st.threw))

\* flow.unsubscribe(uniqueId), or the closure subscribe returned
CallUnsubscribe(key, uniqueId) ==
  /\ key \in DOMAIN flows
  /\ Call(StateFlowUnsubscribe(St, key, uniqueId),
          Op("unsubscribe", key, uniqueId, "", 0, FALSE))

\* flow.update(newValue)
CallUpdate(key, newValue) ==
  /\ key \in DOMAIN flows
  /\ LET st == StateFlowUpdate(St, key, newValue)
     IN Call(st, Op("update", key, "", "", newValue, st.threw))

\* the events the .then callback of the hydrate emits after it updated the
\* cell (st is the state after the update, if one was made)
HydrateEvents(st, key, loadedValue) ==
  IF st.threw \/ ~persistOptions[key].emitEvents THEN <<>>
  ELSE (IF loadedValue.present
        THEN <<Event("LOADED_FROM_STORAGE", key, loadedValue.value)>>
        ELSE <<>>)
       \o <<Event("INITIAL_LOAD_COMPLETE", key, st.flows[key].currentValue)>>

\* the promise of loadFromStorage settles (getOrCreate): the .then callback
\* runs when it is fulfilled; nothing handles a rejection
HydrateResolve(key) ==
  /\ key \in DOMAIN hydrate
  /\ LET loadedValue == hydrate[key]
         st0 == [St EXCEPT !.hydrate = FnDelete(@, key)]
         st1 == IF loadedValue.present
                THEN StateFlowUpdate(st0, key, loadedValue.value)
                ELSE st0
         st == IF loadedValue.rejected THEN st0
               ELSE [st1 EXCEPT
                       !.emitted = HydrateEvents(st1, key, loadedValue)]
     IN /\ Commit(st)
        /\ lastOp' = Op("hydrate", key, "", "", 0, st.threw)
  /\ UNCHANGED <<localStorage, itemAdditionCallbacks, eventSubscribers,
                 emitEvents, secondHandle, jobs,
                 writes, nops>>

\* the debounce timer of key fires: later() runs debouncedSave, whose
\* saveToStorage writes serialize(value) with localStorage.setItem, which
\* may throw, or starts the put of the IndexedDB backend, and which then
\* emits PERSISTED
TimerFireRetries(key, ok) ==
  /\ key \in DOMAIN timeout
  /\ timeout[key].wait = 0
  /\ hydrate = EmptyMap
  /\ LET options == persistOptions[key]
         serialized == Serialize(key, timeout[key].arg)
     IN IF options.storageType = "indexedDB"
        THEN /\ idb' = IdbSetValue(idb, key, options, serialized)
             /\ UNCHANGED <<writes, localStorage>>
        ELSE /\ writes' = Append(writes, [key |-> options.storageKey,
                                          text |-> serialized,
                                          age |-> age[key], ok |-> ok])
             /\ localStorage' =
                  IF ok THEN FnSet(localStorage, options.storageKey, serialized)
                  ELSE localStorage
             /\ idb' = idb
  /\ timeout' = IF ok THEN FnDelete(timeout, key)
                ELSE FnSet(timeout, key, [arg |-> timeout[key].arg,
                                           wait |-> DebounceTime])
  /\ lastUpdate' = [lastUpdate EXCEPT ![key].writes = @ + 1]
  /\ lastOp' = Op("save", key, "", "", 0, FALSE)
  /\ calls' = <<>>
  /\ emitted' = IF persistOptions[key].emitEvents
                THEN <<Event("PERSISTED", key, timeout[key].arg)>>
                ELSE <<>>
  /\ UNCHANGED <<flows, persistOptions, debouncedSaveFunctions, hydrate, age,
                 nextCell, local, itemStateFlows, pendingItemSubscriptions,
                 itemAdditionCallbacks, eventSubscribers, emitEvents, secondHandle, jobs,
                 pendingClosures,
                 delivered, returned, firstInit, updated, tornDown, nops>>
TimerFire(key, ok) ==
  /\ key \in DOMAIN timeout
  /\ timeout[key].wait = 0
  /\ hydrate = EmptyMap
  /\ LET options == persistOptions[key]
         serialized == Serialize(key, timeout[key].arg)
     IN IF options.storageType = "indexedDB"
        THEN /\ idb' = IdbSetValue(idb, key, options, serialized)
             /\ UNCHANGED <<writes, localStorage>>
        ELSE /\ writes' = Append(writes, [key |-> options.storageKey,
                                          text |-> serialized,
                                          age |-> age[key], ok |-> ok])
             /\ localStorage' =
                  IF ok THEN FnSet(localStorage, options.storageKey, serialized)
                  ELSE localStorage
             /\ idb' = idb
  /\ timeout' = FnDelete(timeout, key)
  /\ lastUpdate' = [lastUpdate EXCEPT ![key].writes = @ + 1]
  /\ lastOp' = Op("save", key, "", "", 0, FALSE)
  /\ calls' = <<>>
  /\ emitted' = IF persistOptions[key].emitEvents
                THEN <<Event("PERSISTED", key, timeout[key].arg)>>
                ELSE <<>>
  /\ UNCHANGED <<flows, persistOptions, debouncedSaveFunctions, hydrate, age,
                 nextCell, local, itemStateFlows, pendingItemSubscriptions,
                 itemAdditionCallbacks, eventSubscribers, emitEvents, secondHandle, jobs,
                 pendingClosures,
                 delivered, returned, firstInit, updated, tornDown, nops>>

\* one clock tick passes: no promise reaction is waiting and no timer is
\* due.  Timers keep the ticks left to wait; `age` counts the ticks since
\* the last update() of a cell, up to one past the debounce time.
Tick ==
  /\ hydrate = EmptyMap
  /\ \A key \in DOMAIN timeout : timeout[key].wait > 0
  /\ \/ timeout # EmptyMap
     \/ \E key \in DOMAIN age : age[key] <= DebounceTime
  /\ timeout' = [key \in DOMAIN timeout |->
                  [timeout[key] EXCEPT !.wait = @ - 1]]
  /\ age' = [key \in DOMAIN age |->
              IF age[key] <= DebounceTime THEN age[key] + 1 ELSE age[key]]
  /\ lastOp' = Op("tick", "", "", "", 0, FALSE)
  /\ calls' = <<>>
  /\ emitted' = <<>>
  /\ UNCHANGED <<flows, persistOptions, debouncedSaveFunctions, idb, tornDown,
                 hydrate, localStorage, nextCell, local, itemStateFlows,
                 pendingItemSubscriptions, itemAdditionCallbacks,
                 eventSubscribers, emitEvents, secondHandle, jobs, pendingClosures, delivered, writes,
                 returned, firstInit, updated, lastUpdate, nops>>

\* subscribe / unsubscribe / update / subscribeToEvents on the local cell
CallLocalSubscribe(uniqueId, callback) ==
  LET st == LocalSubscribe(St, uniqueId, callback)
  IN Call(st, Op("subscribe", "local", uniqueId, callback,
                 MapGet(local.subscribers, uniqueId), st.threw))

CallLocalUnsubscribe(uniqueId) ==
  Call([St EXCEPT !.local.subscribers = MapDelete(@, uniqueId)],
       Op("unsubscribe", "local", uniqueId, "", 0, FALSE))

CallLocalUpdate(newValue) ==
  Call(LocalUpdate(St, newValue), Op("update", "local", "", "", newValue, FALSE))

CallLocalSubscribeToEvents(uniqueId, callback) ==
  Call([St EXCEPT !.local.eventSubscribers = MapSet(@, uniqueId, callback)],
       Op("subscribeToEvents", "local", uniqueId, callback, 0, FALSE))

\* Specification of the cell contract: registry cells created without
\* persistence options and the local cell.
NextCell ==
  \/ \E key \in Keys, v \in Values : CallGlobalStateFlow(key, v, NoOptions)
  \/ \E key \in Keys, id \in SubIds, cb \in Callbacks :
       CallSubscribe(key, id, cb)
  \/ \E key \in Keys, id \in SubIds : CallUnsubscribe(key, id)
  \/ \E key \in Keys, v \in Values : CallUpdate(key, v)
  \/ \E id \in SubIds, cb \in Callbacks : CallLocalSubscribe(id, cb)
  \/ \E id \in SubIds : CallLocalUnsubscribe(id)
  \/ \E v \in Values : CallLocalUpdate(v)
  \/ \E id \in SubIds, cb \in EventCallbacks :
       CallLocalSubscribeToEvents(id, cb)

SpecCell == InitCell /\ [][NextCell]_vars

\* Specification of the registry with persistence: cells are created with
\* every kind of persistence options; the callbacks are one that returns and
\* one that throws.
PersistCallbacks == {"cb1", "cbThrow"}
PersistSubIds == {"s1"}

NextReg ==
  \/ \E key \in Keys, v \in Values, o \in PersistInputs :
       CallGlobalStateFlow(key, v, o)
  \/ \E key \in Keys, id \in PersistSubIds, cb \in PersistCallbacks :
       CallSubscribe(key, id, cb)
  \/ \E key \in Keys, id \in PersistSubIds : CallUnsubscribe(key, id)
  \/ \E key \in Keys, v \in Values : CallUpdate(key, v)
  \/ \E key \in Keys : HydrateResolve(key)
  \/ \E key \in Keys, ok \in BOOLEAN : TimerFire(key, ok)
  \/ Tick

SpecReg == InitReg /\ [][NextReg]_vars

---------------------------------------------------------------------------
(* Claims about the registry and its cells *)

ValueOf(key) ==
  IF key = "local" THEN local.currentValue ELSE flows[key].currentValue
SubscribersOf(key) ==
  IF key = "local" THEN local.subscribers ELSE flows[key].subscribers
\* the same after the step
ValueAfter(key) ==
  IF key = "local" THEN local'.currentValue ELSE flows'[key].currentValue
SubscribersAfter(key) ==
  IF key = "local" THEN local'.subscribers ELSE flows'[key].subscribers

\* C2: Replay-on-subscribe.  subscribe(id, cb) on a local or registry cell
\* whose value is V invokes cb exactly once, with V, within the call, invokes
\* no other callback, and leaves cb registered under id.
C2_ReplayOnSubscribe ==
  [][lastOp'.op = "subscribe" =>
       LET key == lastOp'.key
           cb == lastOp'.cb
       IN /\ delivered'[cb] = Append(delivered[cb], ValueOf(key))
          /\ \A c \in DOMAIN delivered : c # cb => delivered'[c] = delivered[c]
          /\ ValueAfter(key) = ValueOf(key)
          /\ \E i \in 1..Len(SubscribersAfter(key)) :
               SubscribersAfter(key)[i] = [uniqueId |-> lastOp'.id, callback |-> cb]
    ]_vars

\* a subscribe on a registry cell that was updated before: the callback got
\* the updated value, not the initial one
C2_Witness ==
  /\ lastOp.op = "subscribe"
  /\ lastOp.key \in updated
  /\ flows[lastOp.key].currentValue # firstInit[lastOp.key]
  /\ delivered[lastOp.cb] = <<flows[lastOp.key].currentValue>>

\* C3: Fan-out completeness under failure for registry cells.  update(v) on a
\* cell of the registry invokes every registered subscriber with v, also
\* those registered after one that throws, and does not throw to its caller.
C3_FanOutCompleteRegistry ==
  [][(lastOp'.op = "update" /\ lastOp'.key # "local") =>
       /\ ~lastOp'.threw
       /\ delivered' = DeliverAll(delivered, flows[lastOp'.key].subscribers,
                                  lastOp'.arg)
    ]_vars

\* C4: Debounce coalescing.  On a persistence-enabled cell every backend
\* write is issued exactly one debounce interval after the last update call
\* and holds that call's value, and once the interval after the last call
\* has passed exactly one write has been issued since that call.
C4_DebounceCoalescing ==
  /\ \A i \in 1..Len(writes) : writes[i].age = DebounceTime
  /\ \A key \in DOMAIN lastUpdate \cap debouncedSaveFunctions :
       /\ lastUpdate[key].writes <= 1
       /\ age[key] > DebounceTime => lastUpdate[key].writes = 1
       /\ lastUpdate[key].writes = 1 =>
            \E i \in 1..Len(writes) :
              /\ writes[i].key = persistOptions[key].storageKey
              /\ writes[i].text = JSONstringify(lastUpdate[key].value)
              /\ \A j \in (i + 1)..Len(writes) : writes[j].key # writes[i].key

---------------------------------------------------------------------------
(* ListStateFlow: src/unnamed/part_021 *)


\* String(item[this.idField]), idField = 'id'
IdString(item) == Digits[item.id + 1]

\* An id argument is a number or a string; v is the text String(id) gives.
IdArgs == {[t |-> "number", v |-> "1"], [t |-> "number", v |-> "2"],
           [t |-> "string", v |-> "1"]}
StringOf(id) == id.v

\* String(item[this.idField]) === id: a string never equals a number
StrictEq(s, id) == id.t = "string" /\ id.v = s

\* `${this.key}_item_${id}`
ItemKey(stringId) == ListKey \o "_item_" \o stringId

\* currentList.some / find / findIndex by String(item[idField]) === stringId
ListSome(list, stringId) ==
  \E i \in 1..Len(list) : IdString(list[i]) = stringId
ListFindIndex(list, stringId) ==
  IF ListSome(list, stringId)
  THEN CHOOSE i \in 1..Len(list) :
         /\ IdString(list[i]) = stringId
         /\ \A j \in 1..(i - 1) : IdString(list[j]) # stringId
  ELSE 0
ListFind(list, stringId) == list[ListFindIndex(list, stringId)]

\* list.map(item => String(item[idField]) === stringId ? updatedItem : item)
ListReplace(list, stringId, updatedItem) ==
  [i \in 1..Len(list) |->
     IF IdString(list[i]) = stringId THEN updatedItem ELSE list[i]]

\* an updater function: it gives the item a name
Updater(name, item) == [item EXCEPT !.name = name]

\* `if (this.emitEvents) this.emitEvent(event)`: every event subscriber is
\* called inside try/catch
EmitEvent(st, event) ==
  IF st.threw \/ ~emitEvents THEN st
  ELSE [st EXCEPT !.delivered = DeliverAll(@, eventSubscribers, event),
                  !.calls = @ \o Invocations(eventSubscribers, event)]

\* initializeItemFlows: the map is cleared, then every item gets the cell the
\* registry holds under its item key
RECURSIVE InitializeEach(_, _)
InitializeEach(st, items) ==
  IF items = <<>> THEN st
  ELSE LET id == IdString(Head(items))
           st1 == GetOrCreate(st, ItemKey(id), Head(items), NoOptions)
       IN InitializeEach(
            [st1 EXCEPT !.itemStateFlows = FnSet(@, id, ItemKey(id))],
            Tail(items))
InitializeItemFlows(st, items) ==
  IF st.threw THEN st
  ELSE InitializeEach([st EXCEPT !.itemStateFlows = EmptyMap], items)

\* constructor; o is options.persistOptions
NewListStateFlow(st, initialItems, o) ==
  EmitEvent(
    InitializeItemFlows(GetOrCreate(st, ListKey, initialItems, o),
                        initialItems),
    [type |-> "INITIAL_LOAD_COMPLETE", items |-> initialItems])

\* getItems
GetItems(st) == st.flows[ListKey].currentValue

\* getItem: what it returns, and the state it leaves (a missing item cell
\* is created for an item found in the main list)
GetItemResult(st, id) ==
  IF StringOf(id) \in DOMAIN st.itemStateFlows
  THEN st.flows[st.itemStateFlows[StringOf(id)]].currentValue
  ELSE IF ListSome(GetItems(st), StringOf(id))
       THEN ListFind(GetItems(st), StringOf(id))
       ELSE Undefined
GetItem(st, id) ==
  LET stringId == StringOf(id)
  IN IF stringId \in DOMAIN st.itemStateFlows THEN st
     ELSE IF ListSome(GetItems(st), stringId)
          THEN LET st1 == GetOrCreate(st, ItemKey(stringId),
                                      ListFind(GetItems(st), stringId),
                                      NoOptions)
               IN [st1 EXCEPT
                     !.itemStateFlows = FnSet(@, stringId, ItemKey(stringId))]
          ELSE st

\* updateItems
UpdateItems(st, newItems) ==
  InitializeItemFlows(StateFlowUpdate(st, ListKey, newItems), newItems)

\* updateItem
UpdateItem(st, id, name) ==
  LET stringId == StringOf(id)
  IN IF stringId \notin DOMAIN st.itemStateFlows THEN st
     ELSE
       LET itemFlow == st.itemStateFlows[stringId]
           updatedItem == Updater(name, st.flows[itemFlow].currentValue)
           st1 == StateFlowUpdate(st, itemFlow, updatedItem)
       IN StateFlowUpdate(st1, ListKey,
                          ListReplace(GetItems(st1), stringId, updatedItem))

\* this.itemAdditionCallbacks.forEach(callback => callback.onItemAdded(item))
OnItemAddedAll(st, item) ==
  IF st.threw THEN st
  ELSE [st EXCEPT
          !.delivered = DeliverAll(@, ReachedNoCatch(itemAdditionCallbacks),
                                   item),
          !.calls = @ \o Invocations(ReachedNoCatch(itemAdditionCallbacks),
                                     item),
          !.threw = FirstThrow(itemAdditionCallbacks) # 0]

\* pendingSubscriptions.forEach((callback, uniqueId) =>
\*   itemFlow.subscribe(uniqueId, callback))
RECURSIVE SubscribeEach(_, _, _)
SubscribeEach(st, itemFlow, m) ==
  IF m = <<>> THEN st
  ELSE SubscribeEach(
         StateFlowSubscribe(st, itemFlow, Head(m).uniqueId, Head(m).callback),
         itemFlow, Tail(m))

\* the activation of the pending subscriptions of an id, then their removal
ActivatePending(st, stringId) ==
  IF st.threw \/ stringId \notin DOMAIN st.pendingItemSubscriptions THEN st
  ELSE LET st1 == SubscribeEach(st, st.itemStateFlows[stringId],
                                st.pendingItemSubscriptions[stringId])
       IN IF st1.threw THEN st1
          ELSE [st1 EXCEPT !.pendingItemSubscriptions = FnDelete(@, stringId)]

\* addItem
AddItem(st, item) ==
  LET id == IdString(item)
      currentList == GetItems(st)
      st1 ==
        IF id \in DOMAIN st.itemStateFlows /\ ListSome(currentList, id)
        THEN EmitEvent(StateFlowUpdate(st, st.itemStateFlows[id], item),
                       [type |-> "ITEM_UPDATED", item |-> item])
        ELSE
          LET a == GetOrCreate(st, ItemKey(id), item, NoOptions)
              b == [a EXCEPT !.itemStateFlows = FnSet(@, id, ItemKey(id))]
              c == StateFlowUpdate(b, ListKey, Append(currentList, item))
          IN EmitEvent(OnItemAddedAll(c, item),
                       [type |-> "ITEM_ADDED", item |-> item])
  IN ActivatePending(st1, id)

\* addItems, the loop over the items: acc holds the state and the locals
\* newList, addedItems and updatedItems
RECURSIVE AddItemsEach(_, _)
AddItemsEach(acc, items) ==
  IF items = <<>> \/ acc.st.threw THEN acc
  ELSE
    LET item == Head(items)
        id == IdString(item)
        st == acc.st
        existingIndex == ListFindIndex(acc.newList, id)
        next ==
          IF existingIndex > 0
          THEN [st |-> IF id \in DOMAIN st.itemStateFlows
                       THEN StateFlowUpdate(st, st.itemStateFlows[id], item)
                       ELSE [GetOrCreate(st, ItemKey(id), item, NoOptions)
                               EXCEPT !.itemStateFlows =
                                 FnSet(@, id, ItemKey(id))],
                newList |-> [acc.newList EXCEPT ![existingIndex] = item],
                addedItems |-> acc.addedItems,
                updatedItems |-> Append(acc.updatedItems, item)]
          ELSE
            LET a == GetOrCreate(st, ItemKey(id), item, NoOptions)
                b == [a EXCEPT !.itemStateFlows = FnSet(@, id, ItemKey(id))]
            IN [st |-> ActivatePending(b, id),
                newList |-> Append(acc.newList, item),
                addedItems |-> Append(acc.addedItems, item),
                updatedItems |-> acc.updatedItems]
    IN AddItemsEach(next, Tail(items))

\* addedItems.forEach(item => itemAdditionCallbacks.forEach(...))
RECURSIVE OnItemAddedEach(_, _)
OnItemAddedEach(st, addedItems) ==
  IF addedItems = <<>> THEN st
  ELSE OnItemAddedEach(OnItemAddedAll(st, Head(addedItems)), Tail(addedItems))

\* addItems
AddItems(st, items) ==
  IF items = <<>> THEN st
  ELSE
    LET acc == AddItemsEach([st |-> st, newList |-> GetItems(st),
                             addedItems |-> <<>>, updatedItems |-> <<>>],
                            items)
        st1 == StateFlowUpdate(acc.st, ListKey, acc.newList)
        st2 == IF acc.addedItems # <<>>
               THEN EmitEvent(OnItemAddedEach(st1, acc.addedItems),
                              [type |-> "ITEM_ADDED",
                               items |-> acc.addedItems])
               ELSE st1
    IN IF acc.updatedItems # <<>>
       THEN EmitEvent(st2, [type |-> "ITEM_UPDATED",
                            items |-> acc.updatedItems])
       ELSE st2

\* removeItem: the item cell leaves the map; the main list is filtered with
\* String(item[idField]) !== id, id as it was passed
RemoveItem(st, id) ==
  LET st1 == [st EXCEPT !.itemStateFlows = FnDelete(@, StringOf(id))]
      currentList == GetItems(st1)
      found == \E i \in 1..Len(currentList) :
                 StrictEq(IdString(currentList[i]), id)
      st2 == StateFlowUpdate(st1, ListKey,
               SelectSeq(currentList,
                         LAMBDA item : ~StrictEq(IdString(item), id)))
  IN IF found
     THEN EmitEvent(st2, [type |-> "ITEM_REMOVED",
                          item |-> ListFind(currentList, StringOf(id))])
     ELSE st2

\* batchUpdate, the loop over the updates: acc holds the state and the local
\* updatedList
RECURSIVE BatchUpdateEach(_, _)
BatchUpdateEach(acc, updates) ==
  IF updates = <<>> \/ acc.st.threw THEN acc
  ELSE
    LET stringId == StringOf(Head(updates).id)
        st == acc.st
        next ==
          IF stringId \in DOMAIN st.itemStateFlows
          THEN LET itemFlow == st.itemStateFlows[stringId]
                   updatedItem == Updater(Head(updates).update,
                                          st.flows[itemFlow].currentValue)
               IN [st |-> StateFlowUpdate(st, itemFlow, updatedItem),
                   updatedList |-> ListReplace(acc.updatedList, stringId,
                                               updatedItem)]
          ELSE acc
    IN BatchUpdateEach(next, Tail(updates))

\* batchUpdate
BatchUpdate(st, updates) ==
  LET acc == BatchUpdateEach([st |-> st, updatedList |-> GetItems(st)],
                             updates)
  IN StateFlowUpdate(acc.st, ListKey, acc.updatedList)

\* subscribeToList
SubscribeToList(st, uniqueId, callback) ==
  StateFlowSubscribe(st, ListKey, uniqueId, callback)

\* The closure subscribeToItem returns for an item without a cell, with a
\* mark telling whether the application has called it.  A new
\* subscribeToItem of the same callback to the same id drops the closures
\* of earlier subscriptions from the record.
PendingClosure(stringId, uniqueId, callback, called) ==
  [id |-> stringId, uniqueId |-> uniqueId, callback |-> callback,
   called |-> called]
ForgetClosures(closures, stringId, callback) ==
  {c \in closures : ~(c.id = stringId /\ c.callback = callback)}

\* subscribeToItem
SubscribeToItem(st, id, uniqueId, callback) ==
  LET stringId == StringOf(id)
      st0 == [st EXCEPT !.pendingClosures =
                          ForgetClosures(@, stringId, callback)]
  IN IF stringId \in DOMAIN st.itemStateFlows
     THEN StateFlowSubscribe(st0, st.itemStateFlows[stringId], uniqueId,
                             callback)
     ELSE
       LET pendingSubscriptions ==
             IF stringId \in DOMAIN st.pendingItemSubscriptions
             THEN st.pendingItemSubscriptions[stringId] ELSE <<>>
       IN [st0 EXCEPT
             !.pendingItemSubscriptions =
               FnSet(@, stringId,
                     MapSet(pendingSubscriptions, uniqueId, callback)),
             !.pendingClosures =
               @ \cup {PendingClosure(stringId, uniqueId, callback, FALSE)}]

\* dispose: dispose() of every item cell in the map (its subscribers are
\* cleared), the maps are cleared, dispose() of the main cell; the action
\* clears the two maps the state record does not hold
Dispose(st) ==
  LET held == {st.itemStateFlows[id] : id \in DOMAIN st.itemStateFlows}
  IN [st EXCEPT
        !.flows = [key \in DOMAIN @ |->
                     IF key \in held \cup {ListKey}
                     THEN [@[key] EXCEPT !.subscribers = <<>>]
                     ELSE @[key]],
        !.itemStateFlows = EmptyMap,
        !.pendingItemSubscriptions = EmptyMap]

\* the closure itself
PendingUnsubscribe(st, c) ==
  LET st0 == [st EXCEPT !.pendingClosures =
                (@ \ {c}) \cup
                  {PendingClosure(c.id, c.uniqueId, c.callback, TRUE)}]
  IN IF c.id \in DOMAIN st.pendingItemSubscriptions
     THEN LET subscriptions ==
                MapDelete(st.pendingItemSubscriptions[c.id], c.uniqueId)
          IN [st0 EXCEPT !.pendingItemSubscriptions =
                IF subscriptions = <<>> THEN FnDelete(@, c.id)
                ELSE FnSet(@, c.id, subscriptions)]
     ELSE st0

---------------------------------------------------------------------------
(* One ListStateFlow under an application that adds, updates and removes   *)
(* items and subscribes to the list, to items, to additions and to events. *)

\* callbacks handed to subscribeToList, subscribeToItem, onItemAdded and
\* subscribeToEvents
ListCallbacks == {"lcb"}
ItemCallbacks == {"icb", "icbThrow"}
AdditionCallbacks == {"acb"}
\* an onItemAdded callback that throws
ThrowingAdditionCallbacks == {"acbThrow"}
ListEventCallbacks == {"ecb"}
AllListCallbacks ==
  ListCallbacks \cup ItemCallbacks \cup AdditionCallbacks
    \cup ThrowingAdditionCallbacks \cup ListEventCallbacks
ListSubIds == {"s1"}

\* the arguments the application passes
InitialLists ==
  {<<>>, <<[id |-> 1, name |-> "a"]>>,
   <<[id |-> 1, name |-> "a"], [id |-> 2, name |-> "a"]>>}
AddItemsInputs ==
  {<<>>, <<[id |-> 2, name |-> "a"]>>,
   <<[id |-> 1, name |-> "b"], [id |-> 2, name |-> "b"]>>,
   <<[id |-> 1, name |-> "a"], [id |-> 1, name |-> "b"]>>}
UpdateItemsInputs ==
  {<<>>, <<[id |-> 1, name |-> "b"]>>,
   <<[id |-> 2, name |-> "a"], [id |-> 1, name |-> "a"]>>}
BatchUpdateInputs ==
  {<<>>,
   <<[id |-> [t |-> "number", v |-> "1"], update |-> "b"]>>,
   <<[id |-> [t |-> "number", v |-> "1"], update |-> "b"],
     [id |-> [t |-> "number", v |-> "2"], update |-> "b"]>>,
   <<[id |-> [t |-> "string", v |-> "1"], update |-> "b"],
     [id |-> [t |-> "number", v |-> "1"], update |-> "a"]>>}

\* the state a constructor finds: an empty registry
EmptyState ==
  [flows |-> EmptyMap, persistOptions |-> EmptyMap,
   debouncedSaveFunctions |-> {}, timeout |-> EmptyMap,
   hydrate |-> EmptyMap, nextCell |-> 1, local |-> NewStateFlow(0),
   itemStateFlows |-> EmptyMap, pendingItemSubscriptions |-> EmptyMap,
   pendingClosures |-> {},
   delivered |-> [c \in AllListCallbacks |-> <<>>],
   returned |-> EmptyMap, firstInit |-> EmptyMap, updated |-> {},
   lastUpdate |-> EmptyMap, age |-> EmptyMap, calls |-> <<>>,
   emitted |-> <<>>, idb |-> EmptyIdb, tornDown |-> {}, threw |-> FALSE]

\* new ListStateFlow("L", initialItems) on an empty registry
InitList ==
  /\ eventSubscribers = <<>>
  /\ emitEvents = TRUE
  /\ secondHandle = NoHandle
  /\ jobs = NoJobs
  /\ itemAdditionCallbacks = <<>>
  /\ localStorage = EmptyMap
  /\ writes = <<>>
  /\ \E initialItems \in InitialLists :
       LET st == NewListStateFlow(EmptyState, initialItems, NoOptions)
       IN /\ flows = st.flows
          /\ persistOptions = st.persistOptions
          /\ debouncedSaveFunctions = st.debouncedSaveFunctions
          /\ timeout = st.timeout
          /\ hydrate = st.hydrate
          /\ nextCell = st.nextCell
          /\ local = st.local
          /\ itemStateFlows = st.itemStateFlows
          /\ pendingItemSubscriptions = st.pendingItemSubscriptions
          /\ pendingClosures = st.pendingClosures
          /\ delivered = st.delivered
          /\ returned = st.returned
          /\ firstInit = st.firstInit
          /\ updated = st.updated
          /\ lastUpdate = st.lastUpdate
          /\ age = st.age
          /\ lastOp = Op("new", ListKey, "", "", initialItems, FALSE)
          /\ calls = st.calls
          /\ emitted = st.emitted
          /\ idb = st.idb
          /\ tornDown = st.tornDown
  /\ nops = MaxOpsList

CallAddItem(item) ==
  LET st == AddItem(St, item)
  IN Call(st, Op("addItem", ListKey, IdString(item), "", item, st.threw))

CallAddItems(items) ==
  LET st == AddItems(St, items)
  IN Call(st, Op("addItems", ListKey, "", "", items, st.threw))

CallUpdateItem(id, name) ==
  LET st == UpdateItem(St, id, name)
  IN Call(st, Op("updateItem", ListKey, StringOf(id), "", name, st.threw))

CallBatchUpdate(updates) ==
  LET st == BatchUpdate(St, updates)
  IN Call(st, Op("batchUpdate", ListKey, "", "", updates, st.threw))

CallUpdateItems(newItems) ==
  LET st == UpdateItems(St, newItems)
  IN Call(st, Op("updateItems", ListKey, "", "", newItems, st.threw))

CallRemoveItem(id) ==
  LET st == RemoveItem(St, id)
  IN Call([st EXCEPT !.tornDown = @ \cup {StringOf(id)}],
          Op("removeItem", ListKey, StringOf(id), "", id, st.threw))

CallGetItem(id) ==
  Call(GetItem(St, id),
       Op("getItem", ListKey, StringOf(id), "", GetItemResult(St, id), FALSE))

CallSubscribeToList(uniqueId, callback) ==
  LET st == SubscribeToList(St, uniqueId, callback)
  IN Call(st, Op("subscribeToList", ListKey, uniqueId, callback, 0, st.threw))

CallSubscribeToItem(id, uniqueId, callback) ==
  LET st == SubscribeToItem(St, id, uniqueId, callback)
  IN Call(st, Op("subscribeToItem", StringOf(id), uniqueId, callback, 0,
                 st.threw))

\* the application calls a closure subscribeToItem returned for an item
\* without a cell
CallPendingClosure(c) ==
  /\ c \in pendingClosures
  /\ ~c.called
  /\ Call(PendingUnsubscribe(St, c),
          Op("closure", c.id, c.uniqueId, c.callback, 0, FALSE))

\* onItemAdded
CallOnItemAdded(callbackId, callback) ==
  /\ nops > 0
  /\ itemAdditionCallbacks' = MapSet(itemAdditionCallbacks, callbackId, callback)
  /\ Commit(St)
  /\ lastOp' = Op("onItemAdded", ListKey, callbackId, callback, 0, FALSE)
  /\ nops' = nops - 1
  /\ UNCHANGED <<localStorage, eventSubscribers, emitEvents, secondHandle, jobs, writes>>

\* subscribeToEvents of the list
CallListSubscribeToEvents(uniqueId, callback) ==
  /\ nops > 0
  /\ eventSubscribers' = MapSet(eventSubscribers, uniqueId, callback)
  /\ Commit(St)
  /\ lastOp' = Op("subscribeToEvents", ListKey, uniqueId, callback, 0, FALSE)
  /\ nops' = nops - 1
  /\ UNCHANGED <<localStorage, itemAdditionCallbacks, emitEvents, secondHandle, jobs, writes>>

\* dispose
CallDispose ==
  /\ nops > 0
  /\ itemAdditionCallbacks' = <<>>
  /\ eventSubscribers' = <<>>
  /\ Commit([Dispose(St) EXCEPT !.tornDown = @ \cup {ListKey}])
  /\ lastOp' = Op("dispose", ListKey, "", "", 0, FALSE)
  /\ nops' = nops - 1
  /\ UNCHANGED <<localStorage, emitEvents, secondHandle, jobs, writes>>

NextList ==
  \/ \E item \in Items : CallAddItem(item)
  \/ \E items \in AddItemsInputs : CallAddItems(items)
  \/ \E id \in IdArgs, name \in Names : CallUpdateItem(id, name)
  \/ \E updates \in BatchUpdateInputs : CallBatchUpdate(updates)
  \/ \E newItems \in UpdateItemsInputs : CallUpdateItems(newItems)
  \/ \E id \in IdArgs : CallRemoveItem(id)
  \/ \E id \in IdArgs : CallGetItem(id)
  \/ \E uniqueId \in ListSubIds, callback \in ListCallbacks :
       CallSubscribeToList(uniqueId, callback)
  \/ \E id \in IdArgs, uniqueId \in ListSubIds, callback \in ItemCallbacks :
       CallSubscribeToItem(id, uniqueId, callback)
  \/ \E c \in pendingClosures : CallPendingClosure(c)
  \/ \E key \in DOMAIN flows, uniqueId \in ListSubIds :
       CallUnsubscribe(key, uniqueId)
  \/ \E callbackId \in ListSubIds, callback \in AdditionCallbacks :
       CallOnItemAdded(callbackId, callback)
  \/ \E uniqueId \in ListSubIds, callback \in ListEventCallbacks :
       CallListSubscribeToEvents(uniqueId, callback)

SpecList == InitList /\ [][NextList]_vars

---------------------------------------------------------------------------
(* Claims about ListStateFlow *)

\* no callback that throws has been invoked so far: every call has completed
NoCallbackThrew ==
  \A cb \in DOMAIN delivered : Throws(cb) => delivered[cb] = <<>>
NoCallbackThrewAfter ==
  \A cb \in DOMAIN delivered' : Throws(cb) => delivered'[cb] = <<>>

\* C6: List/item consistency.  After any sequence of completed mutations,
\* for every id that appears in getItems(), getItem(id) equals an element of
\* getItems() with that id.
C6_ListItemConsistency ==
  NoCallbackThrew =>
    \A i \in 1..Len(GetItems(St)) :
      LET id == [t |-> "number", v |-> IdString(GetItems(St)[i])]
      IN \E j \in 1..Len(GetItems(St)) :
           /\ IdString(GetItems(St)[j]) = StringOf(id)
           /\ GetItemResult(St, id) = GetItems(St)[j]

\* C7: addItem on an existing id updates in place.  When the list holds an
\* element with the id of x, a completed addItem(x) leaves exactly one
\* element with that id in getItems(), and that element is x.
C7_AddItemExistingUpdatesInPlace ==
  [][(/\ lastOp'.op = "addItem"
      /\ ~lastOp'.threw
      /\ ListSome(GetItems(St), lastOp'.id)) =>
       LET after == flows'[ListKey].currentValue
       IN /\ Cardinality({i \in 1..Len(after) :
                            IdString(after[i]) = lastOp'.id}) = 1
          /\ ListFind(after, lastOp'.id) = lastOp'.arg
    ]_vars

\* the items with the id stringId that the call op adds
AddedWith(op, stringId) ==
  IF op.op = "addItem"
  THEN IF op.id = stringId THEN <<op.arg>> ELSE <<>>
  ELSE IF op.op = "addItems"
       THEN SelectSeq(op.arg, LAMBDA x : IdString(x) = stringId)
       ELSE <<>>

\* C8: Pre-subscription fulfillment.  When subscribeToItem(i, s, cb) is
\* pending and no item with id i is in the list, an addItem(x) or addItems
\* with one x of id i (no callback throwing) completes, invokes cb with x
\* and nothing else, leaves cb subscribed to the cell of item i and clears
\* the pending record of i.
C8_PreSubscriptionFulfilled ==
  [][\A i \in DOMAIN pendingItemSubscriptions :
       (/\ Len(AddedWith(lastOp', i)) = 1
        /\ ~ListSome(GetItems(St), i)
        /\ NoCallbackThrewAfter) =>
         /\ ~lastOp'.threw
         /\ i \notin DOMAIN pendingItemSubscriptions'
         /\ i \in DOMAIN itemStateFlows'
         /\ \A k \in 1..Len(pendingItemSubscriptions[i]) :
              LET e == pendingItemSubscriptions[i][k]
              IN /\ delivered'[e.callback] =
                      Append(delivered[e.callback], AddedWith(lastOp', i)[1])
                 /\ \E j \in 1..Len(flows'[itemStateFlows'[i]].subscribers) :
                      flows'[itemStateFlows'[i]].subscribers[j] = e
    ]_vars

\* C9: The closure subscribeToItem returned for an item without a cell never
\* throws, and once it has been called (and the callback, one that does not
\* throw, has not been subscribed to the item again) the callback is not
\* invoked with an item of that id any more, whether the subscription was
\* still pending or addItem had made it a subscription of the item's cell.
C9_PendingClosureEffective ==
  [][/\ lastOp'.op = "closure" => ~lastOp'.threw
     /\ \A c \in pendingClosures \cap pendingClosures' :
          (c.called /\ ~Throws(c.callback)) =>
            \A k \in (Len(delivered[c.callback]) + 1)
                       ..Len(delivered'[c.callback]) :
              IdString(delivered'[c.callback][k]) # c.id
    ]_vars

\* the entries of updates whose id has an item cell, as batchUpdate meets them
AffectedBy(updates, stringId) ==
  SelectSeq(updates, LAMBDA u : StringOf(u.id) = stringId)

\* C10: Batch atomicity of collection notification.  batchUpdate(updates)
\* completes and invokes each whole-collection subscriber exactly once, with
\* the list it leaves, whatever the number of entries; every item cell named
\* by an entry ends with the last updater applied, the list holds that value
\* for the id, and the cell's subscribers were notified once per entry.
C10_BatchAtomicity ==
  [][lastOp'.op = "batchUpdate" =>
       LET updates == lastOp'.arg
           subs == flows[ListKey].subscribers
           after == flows'[ListKey].currentValue
       IN /\ ~lastOp'.threw
          /\ \A k \in 1..Len(subs) :
               delivered'[subs[k].callback] =
                 Append(delivered[subs[k].callback], after)
          /\ \A i \in DOMAIN itemStateFlows :
               LET mine == AffectedBy(updates, i)
                   cell == flows[itemStateFlows[i]]
                   cellAfter == flows'[itemStateFlows[i]]
               IN mine # <<>> =>
                    /\ cellAfter.currentValue =
                         Updater(mine[Len(mine)].update, cell.currentValue)
                    /\ \A j \in 1..Len(after) :
                         IdString(after[j]) = i =>
                           after[j] = cellAfter.currentValue
                    /\ \A k \in 1..Len(cell.subscribers) :
                         Len(delivered'[cell.subscribers[k].callback]) >=
                           Len(delivered[cell.subscribers[k].callback])
                             + Len(mine)
    ]_vars

\* C11: removeItem(id), for an id present in the list and passed as a number
\* or as a string, leaves no element with that id in getItems(), removes the
\* id from the per-item map and emits exactly one ITEM_REMOVED event carrying
\* the removed item (every event subscriber receives exactly that event).
C11_RemoveItemRemoves ==
  [][(/\ lastOp'.op = "removeItem"
      /\ ListSome(GetItems(St), lastOp'.id)) =>
       /\ ~lastOp'.threw
       /\ ~ListSome(flows'[ListKey].currentValue, lastOp'.id)
       /\ lastOp'.id \notin DOMAIN itemStateFlows'
       /\ \A k \in 1..Len(eventSubscribers) :
            delivered'[eventSubscribers[k].callback] =
              Append(delivered[eventSubscribers[k].callback],
                     [type |-> "ITEM_REMOVED",
                      item |-> ListFind(GetItems(St), lastOp'.id)])
    ]_vars

\* the ids of a list, in order, and whether they are pairwise distinct
IdsOf(list) == [i \in 1..Len(list) |-> IdString(list[i])]
DistinctIds(list) ==
  \A i, j \in 1..Len(list) : IdString(list[i]) = IdString(list[j]) => i = j

\* what a batch makes of a list: an id the list holds is replaced in place,
\* another id is appended
RECURSIVE Merged(_, _)
Merged(list, items) ==
  IF items = <<>> THEN list
  ELSE Merged(IF ListSome(list, IdString(Head(items)))
              THEN ListReplace(list, IdString(Head(items)), Head(items))
              ELSE Append(list, Head(items)),
              Tail(items))

\* the ids of a batch that a list does not hold, once each, in order
RECURSIVE NewIds(_, _)
NewIds(list, items) ==
  IF items = <<>> THEN <<>>
  ELSE IF ListSome(list, IdString(Head(items)))
       THEN NewIds(list, Tail(items))
       ELSE <<IdString(Head(items))>>
              \o NewIds(Append(list, Head(items)), Tail(items))

\* the events of one type among those a callback got during the step
NewEvents(cb, type) ==
  SelectSeq(SubSeq(delivered'[cb], Len(delivered[cb]) + 1,
                   Len(delivered'[cb])),
            LAMBDA e : e.type = type)

\* C15: addItems(items) with a non-empty batch, on a list with distinct ids,
\* completes and commits to the whole-collection cell exactly once (each list
\* subscriber is invoked once, with the final list); ids the list did not
\* hold are appended and ids it held, or repeated in the batch, are replaced
\* in place, so the final list has distinct ids; each onItemAdded callback
\* runs once per new id and the event subscribers get exactly one ITEM_ADDED
\* event, carrying the new ids.
C15_AddItemsCommitsOnce ==
  [][(/\ lastOp'.op = "addItems"
      /\ lastOp'.arg # <<>>
      /\ DistinctIds(GetItems(St))) =>
       LET before == GetItems(St)
           after == flows'[ListKey].currentValue
           subs == flows[ListKey].subscribers
           new == NewIds(before, lastOp'.arg)
       IN /\ ~lastOp'.threw
          /\ \A k \in 1..Len(subs) :
               delivered'[subs[k].callback] =
                 Append(delivered[subs[k].callback], after)
          /\ after = Merged(before, lastOp'.arg)
          /\ DistinctIds(after)
          /\ \A k \in 1..Len(itemAdditionCallbacks) :
               Len(delivered'[itemAdditionCallbacks[k].callback]) =
                 Len(delivered[itemAdditionCallbacks[k].callback]) + Len(new)
          /\ \A k \in 1..Len(eventSubscribers) :
               LET added == NewEvents(eventSubscribers[k].callback,
                                      "ITEM_ADDED")
               IN IF new = <<>> THEN added = <<>>
                  ELSE /\ Len(added) = 1
                       /\ IdsOf(added[1].items) = new
    ]_vars

\* C16: updateItems(newList) is a wholesale replace that rebuilds every
\* per-item cell: afterwards getItems() = newList, getItem(id) is the element
\* of newList for every id in newList, also for ids that had other data
\* before, and getItem(id) is undefined for every id not in newList.
C16_UpdateItemsRebuilds ==
  [][(lastOp'.op = "updateItems" /\ DistinctIds(lastOp'.arg)) =>
       LET newList == lastOp'.arg
           cellOf(i) == flows'[itemStateFlows'[i]].currentValue
       IN /\ ~lastOp'.threw
          /\ flows'[ListKey].currentValue = newList
          /\ DOMAIN itemStateFlows' = {IdString(newList[k]) : k \in 1..Len(newList)}
          /\ \A k \in 1..Len(newList) :
               cellOf(IdString(newList[k])) = newList[k]
    ]_vars

---------------------------------------------------------------------------
(* One registry cell, created with or without persistence, and one local   *)
(* cell under an application that subscribes, re-subscribes, unsubscribes  *)
(* and updates.                                                            *)

SubKey == "k1"
SubInputs ==
  {NoOptions,
   [given |-> TRUE, enabled |-> "true", storageType |-> Undefined]}

\* GlobalStateFlow("k1", v, o) on an empty registry, and StateFlow(v)
InitSub ==
  /\ InitListless
  /\ localStorage = EmptyMap
  /\ writes = <<>>
  /\ \E v \in Values, o \in SubInputs :
       LET st == GetOrCreate(
                   [EmptyState EXCEPT
                      !.delivered = [c \in RegCallbacks |-> <<>>],
                      !.local = NewStateFlow(v)],
                   SubKey, v, o)
       IN /\ flows = st.flows
          /\ persistOptions = st.persistOptions
          /\ debouncedSaveFunctions = st.debouncedSaveFunctions
          /\ timeout = st.timeout
          /\ hydrate = st.hydrate
          /\ nextCell = st.nextCell
          /\ local = st.local
          /\ delivered = st.delivered
          /\ returned = st.returned
          /\ firstInit = st.firstInit
          /\ updated = st.updated
          /\ lastUpdate = st.lastUpdate
          /\ age = st.age
          /\ calls = st.calls
          /\ emitted = st.emitted
          /\ idb = st.idb
          /\ tornDown = st.tornDown
          /\ lastOp = Op("GlobalStateFlow", SubKey, "", "", v, FALSE)
                        @@ [options |-> o]
  /\ nops = MaxOpsSub

NextSub ==
  \/ \E id \in SubIds, cb \in Callbacks : CallSubscribe(SubKey, id, cb)
  \/ \E id \in SubIds : CallUnsubscribe(SubKey, id)
  \/ \E v \in Values : CallUpdate(SubKey, v)
  \/ \E id \in SubIds, cb \in Callbacks : CallLocalSubscribe(id, cb)
  \/ \E id \in SubIds : CallLocalUnsubscribe(id)
  \/ \E v \in Values : CallLocalUpdate(v)
  \/ HydrateResolve(SubKey)
  \/ \E ok \in BOOLEAN : TimerFire(SubKey, ok)
  \/ Tick

SpecSub == InitSub /\ [][NextSub]_vars

---------------------------------------------------------------------------
(* Claims about subscribers *)

\* C17: Synchronous ordered fan-out.  update(v) on a local or registry cell
\* sets the value to v and invokes every registered value subscriber with v
\* in registration order before anything else; no backend write is made
\* during the call.
C17_SynchronousOrderedFanOut ==
  [][lastOp'.op = "update" =>
       LET subs == SubscribersOf(lastOp'.key)
       IN /\ ValueAfter(lastOp'.key) = lastOp'.arg
          /\ Len(calls') >= Len(subs)
          /\ SubSeq(calls', 1, Len(subs)) = Invocations(subs, lastOp'.arg)
          /\ writes' = writes
          /\ localStorage' = localStorage
    ]_vars


\* how many times the last step invoked callback c
TimesCalled(cs, c) == Cardinality({i \in 1..Len(cs) : cs[i].callback = c})

\* the ids under which callback c is registered in the subscriber map m
IdsHolding(m, c) == {m[i].uniqueId : i \in {j \in 1..Len(m) : m[j].callback = c}}

\* C18: Re-subscribing under an existing id replaces the prior callback.
\* subscribe(id, cb2) on an id that holds cb1 leaves the subscriber count
\* unchanged and stores cb2 under id; an update that follows invokes cb2
\* exactly once and cb1 not at all (cb1 and cb2 being registered under no
\* other id).
C18_ResubscribeReplaces ==
  [][/\ (lastOp'.op = "subscribe" /\ lastOp'.arg # "undefined") =>
          /\ Len(SubscribersAfter(lastOp'.key)) = Len(SubscribersOf(lastOp'.key))
          /\ MapGet(SubscribersAfter(lastOp'.key), lastOp'.id) = lastOp'.cb
     /\ (/\ lastOp.op = "subscribe" /\ lastOp.arg # "undefined"
         /\ lastOp.arg # lastOp.cb
         /\ lastOp'.op = "update" /\ lastOp'.key = lastOp.key
         /\ IdsHolding(SubscribersOf(lastOp.key), lastOp.cb) = {lastOp.id}
         /\ IdsHolding(SubscribersOf(lastOp.key), lastOp.arg) = {}) =>
          /\ TimesCalled(calls', lastOp.cb) = 1
          /\ TimesCalled(calls', lastOp.arg) = 0
    ]_vars


---------------------------------------------------------------------------
(* Claims about the persistence of registry cells *)

\* C19: Persistence options are fixed by the first caller.  GlobalStateFlow
\* on a key that already has a cell leaves the cell's value and subscribers,
\* the stored options, the debounce function, the pending timer and the
\* pending hydrate read as they were and writes nothing; and no step turns
\* a cell that exists without a debounce function into a persisting one.
C19_OptionsFixedByFirstCaller ==
  [][/\ (lastOp'.op = "GlobalStateFlow" /\ lastOp'.key \in DOMAIN flows) =>
          /\ flows' = flows
          /\ persistOptions' = persistOptions
          /\ debouncedSaveFunctions' = debouncedSaveFunctions
          /\ hydrate' = hydrate
          /\ timeout' = timeout
          /\ writes' = writes
          /\ localStorage' = localStorage
     /\ \A key \in DOMAIN flows :
          key \notin debouncedSaveFunctions =>
            /\ key \notin debouncedSaveFunctions'
            /\ key \notin DOMAIN timeout'
            /\ key \notin DOMAIN hydrate'
    ]_vars

\* a later caller passed enabled options for a cell created without
\* persistence: the cell has no debounce function and no read is pending
C19_Witness ==
  /\ lastOp.op = "GlobalStateFlow"
  /\ PersistenceRequested(lastOp.options)
  /\ returned[lastOp.key] = {flows[lastOp.key].cell}
  /\ lastOp.arg # firstInit[lastOp.key]
  /\ lastOp.key \notin debouncedSaveFunctions
  /\ lastOp.key \notin DOMAIN persistOptions
  /\ lastOp.key \notin DOMAIN hydrate


\* C12: Backend write failure is invisible to the reactive contract.  When
\* the debounced write of a cell fails, the step leaves every cell's value
\* and subscribers and the stored text as they were, raises nothing, and
\* leaves no timer for the cell; a save timer is only ever started by an
\* update() of its cell (the application's or the hydrate's), so the failed
\* write is not tried again.
C12_WriteFailureInvisible ==
  [][/\ (lastOp'.op = "save" /\ ~writes'[Len(writes')].ok) =>
          /\ flows' = flows
          /\ delivered' = delivered
          /\ localStorage' = localStorage
          /\ ~lastOp'.threw
          /\ lastOp'.key \notin DOMAIN timeout'
     /\ \A key \in DOMAIN timeout' :
          (\/ key \notin DOMAIN timeout
           \/ timeout'[key].wait > timeout[key].wait) =>
            /\ lastOp'.op \in {"update", "hydrate"}
            /\ lastOp'.key = key
     /\ Len(writes') > Len(writes) => lastOp'.op = "save"
    ]_vars

\* the write of the updated value 1 failed: the cell still holds 1, nothing
\* is stored and no timer is left
C12_Witness ==
  /\ lastOp.op = "save"
  /\ ~writes[Len(writes)].ok
  /\ writes[Len(writes)].text = JSONstringify(1)
  /\ flows[lastOp.key].currentValue = 1
  /\ lastOp.key \notin DOMAIN localStorage
  /\ timeout = EmptyMap


\* C13: PERSISTED only after a completed write.  Whenever the registry
\* emits a PERSISTED event for a key with value v, the backend write of v
\* issued for that key has succeeded and the backend holds the text of v.
C13_PersistedAfterWrite ==
  [][\A i \in 1..Len(emitted') :
       emitted'[i].type = "PERSISTED" =>
         LET storageKey == persistOptions[emitted'[i].key].storageKey
         IN /\ Len(writes') > 0
            /\ writes'[Len(writes')].ok
            /\ storageKey \in DOMAIN localStorage'
            /\ localStorage'[storageKey] = JSONstringify(emitted'[i].value)
    ]_vars

---------------------------------------------------------------------------
(* The registry when the text an earlier session left under k1 may be the  *)
(* text of a value, the empty string, or text JSON.parse rejects.          *)

StoredTexts == {JSONstringify(MaxVal), "", "{"}

InitHydrate ==
  /\ InitRegistry
  /\ InitListless
  /\ localStorage \in
       {EmptyMap} \cup {[x \in {"k1"} |-> text] : text \in StoredTexts}
  /\ local = NewStateFlow(0)
  /\ delivered = [c \in RegCallbacks |-> <<>>]
  /\ nops = MaxOpsReg

SpecHydrate == InitHydrate /\ [][NextReg]_vars

\* C20: Hydrate without a usable stored value.  When the hydrate read of a
\* cell settles without a value (nothing stored, or the read failed), the
\* cell keeps its value, no value subscriber is invoked, and the registry
\* emits exactly one event, INITIAL_LOAD_COMPLETE.
C20_HydrateWithoutValue ==
  [][\A key \in DOMAIN hydrate :
       (/\ lastOp'.op = "hydrate" /\ lastOp'.key = key
        /\ ~hydrate[key].present) =>
         /\ flows' = flows
         /\ delivered' = delivered
         /\ calls' = <<>>
         /\ Len(emitted') = 1
         /\ emitted'[1].type = "INITIAL_LOAD_COMPLETE"
         /\ emitted'[1].key = key
    ]_vars


---------------------------------------------------------------------------
(* Cells persisted in IndexedDB: src/src/GlobalStateFlow.ts, IndexedDBUtil *)

MaxOpsIdb == 3       \* API calls the application issues on IndexedDB cells

\* persistence options that choose the IndexedDB backend
IdbInputs ==
  [given : {TRUE}, enabled : {"true", Undefined}, storageType : {"indexedDB"}]

\* the database an earlier session left: none, or one whose default object
\* store holds text
EarlierSession(text, supported) ==
  [EmptyIdb EXCEPT !.store = text, !.supported = supported,
                   !.version = IF text = EmptyMap THEN 0 ELSE 1,
                   !.objectStores = IF text = EmptyMap THEN {}
                                    ELSE {StoreName}]

\* an empty registry; the object store of an earlier session may hold a
\* value under k1, and the environment may lack IndexedDB
InitIdb ==
  /\ flows = EmptyMap
  /\ persistOptions = EmptyMap
  /\ debouncedSaveFunctions = {}
  /\ timeout = EmptyMap
  /\ hydrate = EmptyMap
  /\ age = EmptyMap
  /\ nextCell = 1
  /\ writes = <<>>
  /\ returned = EmptyMap
  /\ firstInit = EmptyMap
  /\ updated = {}
  /\ lastUpdate = EmptyMap
  /\ lastOp = Op("none", "", "", "", 0, FALSE)
  /\ calls = <<>>
  /\ emitted = <<>>
  /\ tornDown = {}
  /\ InitListless
  /\ localStorage = EmptyMap
  /\ local = NewStateFlow(0)
  /\ delivered = [c \in RegCallbacks |-> <<>>]
  /\ idb \in {EarlierSession(text, supported) :
                text \in {EmptyMap, [x \in {<<StoreName, "k1">>} |->
                                       JSONstringify(MaxVal)]},
                supported \in BOOLEAN}
  /\ nops = MaxOpsIdb

\* the object store and the key a get or put request addresses
StoreAddress(waiter) == <<waiter.storeName, waiter.storageKey>>

\* what the store request of a getValue delivers to loadFromStorage, and
\* what loadFromStorage makes of it
IdbLoaded(db, waiter, ok) ==
  IF ~ok THEN [present |-> FALSE, value |-> 0, rejected |-> TRUE]
  ELSE IF /\ StoreAddress(waiter) \in DOMAIN db.store
          /\ db.store[StoreAddress(waiter)] # ""
       THEN IF JSONparseThrows(db.store[StoreAddress(waiter)])
            THEN [present |-> FALSE, value |-> 0, rejected |-> TRUE]
            ELSE [present |-> TRUE,
                  value |-> JSONparse(db.store[StoreAddress(waiter)]),
                  rejected |-> FALSE]
       ELSE [present |-> FALSE, value |-> 0, rejected |-> FALSE]

\* the oldest open request is answered: onupgradeneeded runs when the
\* database did not exist at version 1 and creates the object store of this
\* request; onsuccess stores the new connection under the database name and
\* hands it to the caller, whose transaction may throw; onerror rejects
IdbOpenDone(ok) ==
  /\ idb.opening # <<>>
  /\ hydrate = EmptyMap
  /\ LET request == Head(idb.opening)
         conn == Len(idb.opened) + 1
         db0 == [idb EXCEPT !.opening = Tail(@)]
         db1 == [db0 EXCEPT
                   !.opened = Append(@, request.dbName),
                   !.openConnections = FnSet(@, request.dbName, conn),
                   !.version = 1,
                   !.objectStores =
                      IF db0.version = 0
                      THEN @ \cup {request.waiter.storeName} ELSE @]
         st == IF ok /\ ~TransactionThrows(db1, request.waiter)
               THEN [St EXCEPT !.idb = IdbRequest(db1, conn, request.waiter)]
               ELSE IF ok
               THEN [St EXCEPT
                       !.idb = db1,
                       !.hydrate =
                          IF request.waiter.kind = "get"
                          THEN FnSet(@, request.waiter.key,
                                     IdbLoaded(db1, request.waiter, FALSE))
                          ELSE @]
               ELSE [St EXCEPT
                       !.idb = db0,
                       !.hydrate =
                          IF request.waiter.kind = "get"
                          THEN FnSet(@, request.waiter.key,
                                     IdbLoaded(db0, request.waiter, FALSE))
                          ELSE @]
     IN /\ Commit(st)
        /\ lastOp' = Op("open", request.waiter.key, "", "", 0, FALSE)
  /\ UNCHANGED <<localStorage, itemAdditionCallbacks, eventSubscribers,
                 emitEvents, secondHandle, jobs,
                 writes, nops>>

\* the oldest get or put request is answered: a get settles the promise of
\* loadFromStorage, a put that succeeds stores the text
IdbRequestDone(ok) ==
  /\ idb.inflight # <<>>
  /\ hydrate = EmptyMap
  /\ LET request == Head(idb.inflight)
         waiter == request.waiter
         db0 == [idb EXCEPT !.inflight = Tail(@)]
         st == IF waiter.kind = "get"
               THEN [St EXCEPT
                       !.idb = db0,
                       !.hydrate = FnSet(@, waiter.key,
                                         IdbLoaded(db0, waiter, ok))]
               ELSE [St EXCEPT
                       !.idb = IF ok
                               THEN [db0 EXCEPT !.store =
                                       FnSet(@, StoreAddress(waiter),
                                             waiter.text)]
                               ELSE db0]
     IN /\ Commit(st)
        /\ lastOp' = Op(waiter.kind, waiter.key, "", "", 0, FALSE)
  /\ UNCHANGED <<localStorage, itemAdditionCallbacks, eventSubscribers,
                 emitEvents, secondHandle, jobs,
                 writes, nops>>

NextIdb ==
  \/ \E key \in Keys, v \in Values, o \in IdbInputs :
       CallGlobalStateFlow(key, v, o)
  \/ \E key \in Keys, v \in Values : CallUpdate(key, v)
  \/ \E key \in Keys : HydrateResolve(key)
  \/ \E key \in Keys : TimerFire(key, TRUE)
  \/ \E ok \in BOOLEAN : IdbOpenDone(ok)
  \/ \E ok \in BOOLEAN : IdbRequestDone(ok)
  \/ Tick

SpecIdb == InitIdb /\ [][NextIdb]_vars

\* C14: Connection pooling.  For each database name at most one connection
\* has been opened, and every get and put in flight runs on the connection
\* the pool holds for its database.
C14_ConnectionPooling ==
  /\ \A i, j \in 1..Len(idb.opened) : idb.opened[i] = idb.opened[j] => i = j
  /\ \A i \in 1..Len(idb.inflight) :
       /\ DbName \in DOMAIN idb.openConnections
       /\ idb.inflight[i].conn = idb.openConnections[DbName]


\* the events of one kind among those a step emitted
EventsOfType(es, type) == {i \in 1..Len(es) : es[i].type = type}

\* C21: Configuration error handling.  When the IndexedDB backend chosen
\* for a cell does not exist in the environment, the step in which the
\* failed hydrate read settles emits exactly one ERROR event for the cell
\* and leaves the cell's value and subscribers as they are.
C21_UnsupportedBackendError ==
  [][\A key \in DOMAIN hydrate :
       (/\ lastOp'.op = "hydrate" /\ lastOp'.key = key
        /\ persistOptions[key].storageType = "indexedDB"
        /\ ~idb.supported) =>
         /\ Cardinality(EventsOfType(emitted', "ERROR")) = 1
         /\ \A i \in EventsOfType(emitted', "ERROR") : emitted'[i].key = key
         /\ flows' = flows
    ]_vars


\* C22: Persistence only when enabled is true.  When the call that creates
\* a cell passes persistOptions whose `enabled` is omitted or false, the
\* cell gets no hydrate read and no debounce function (so that no backend
\* write is ever issued for it).
C22_PersistenceNeedsEnabledTrue ==
  [][(/\ lastOp'.op = "GlobalStateFlow"
      /\ lastOp'.key \notin DOMAIN flows
      /\ lastOp'.options.given
      /\ lastOp'.options.enabled # "true") =>
        /\ lastOp'.key \notin DOMAIN hydrate'
        /\ lastOp'.key \notin debouncedSaveFunctions'
    ]_vars

\* the prefix the documentation gives for default storage keys
StorageKeyPrefix == "kotlineum_state_"

\* C23: Default storage address.  A cell created without a storageKey
\* option keeps 'kotlineum_state_' + its registry key as storage key, and
\* every backend write is made under such a key.
C23_DefaultStorageKeyPrefixed ==
  /\ \A key \in DOMAIN persistOptions :
       persistOptions[key].storageKey = StorageKeyPrefix \o key
  /\ \A i \in 1..Len(writes) :
       \E key \in DOMAIN flows : writes[i].key = StorageKeyPrefix \o key


---------------------------------------------------------------------------
(* A ListStateFlow whose subscribers are all registered before anything is *)
(* torn down: one subscriber of the list, one of each id (pending where    *)
(* the item does not exist), one addition callback, one event subscriber.  *)
(* The application then adds, updates and removes items and disposes.      *)

MaxOpsTeardown == 4  \* API calls the application issues after subscribing

\* new ListStateFlow("L", initialItems), subscribeToList,
\* subscribeToItem(1) and subscribeToItem(2)
Subscribed(initialItems) ==
  SubscribeToItem(
    SubscribeToItem(
      SubscribeToList(NewListStateFlow(EmptyState, initialItems, NoOptions),
                      "s1", "lcb"),
      [t |-> "number", v |-> "1"], "s1", "icb"),
    [t |-> "number", v |-> "2"], "s1", "icb")

InitTeardown ==
  /\ eventSubscribers = <<[uniqueId |-> "s1", callback |-> "ecb"]>>
  /\ emitEvents = TRUE
  /\ secondHandle = NoHandle
  /\ jobs = NoJobs
  /\ itemAdditionCallbacks = <<[uniqueId |-> "s1", callback |-> "acb"]>>
  /\ localStorage = EmptyMap
  /\ writes = <<>>
  /\ \E initialItems \in InitialLists :
       LET st == Subscribed(initialItems)
       IN /\ flows = st.flows
          /\ persistOptions = st.persistOptions
          /\ debouncedSaveFunctions = st.debouncedSaveFunctions
          /\ timeout = st.timeout
          /\ hydrate = st.hydrate
          /\ nextCell = st.nextCell
          /\ local = st.local
          /\ itemStateFlows = st.itemStateFlows
          /\ pendingItemSubscriptions = st.pendingItemSubscriptions
          /\ pendingClosures = st.pendingClosures
          /\ delivered = st.delivered
          /\ returned = st.returned
          /\ firstInit = st.firstInit
          /\ updated = st.updated
          /\ lastUpdate = st.lastUpdate
          /\ age = st.age
          /\ lastOp = Op("new", ListKey, "", "", initialItems, FALSE)
          /\ calls = st.calls
          /\ emitted = st.emitted
          /\ idb = st.idb
          /\ tornDown = st.tornDown
  /\ nops = MaxOpsTeardown

NextTeardown ==
  \/ \E item \in Items : CallAddItem(item)
  \/ \E items \in AddItemsInputs : CallAddItems(items)
  \/ \E id \in IdArgs, name \in Names : CallUpdateItem(id, name)
  \/ \E updates \in BatchUpdateInputs : CallBatchUpdate(updates)
  \/ \E newItems \in UpdateItemsInputs : CallUpdateItems(newItems)
  \/ \E id \in IdArgs : CallRemoveItem(id)
  \/ CallDispose

SpecTeardown == InitTeardown /\ [][NextTeardown]_vars

\* C24: dispose() silences the list.  Once dispose() has returned, no
\* operation on the list invokes any of the callbacks registered before.
C24_DisposeSilences ==
  [][(ListKey \in tornDown) =>
       /\ calls' = <<>>
       /\ delivered' = delivered
    ]_vars


\* C26: removeItem tears down the item.  No step after removeItem(id)
\* invokes a per-item subscriber (registered or pending before the removal)
\* with an item of that id.
C26_RemoveItemTearsDown ==
  [][\A i \in 1..Len(calls') :
       calls'[i].callback \in ItemCallbacks =>
         IdString(calls'[i].arg) \notin tornDown
    ]_vars


\* C27: No duplicate ids.  addItem, addItems, updateItem, batchUpdate and
\* removeItem, called on a list whose ids are pairwise distinct, leave a
\* list whose ids are pairwise distinct.
C27_NoDuplicateIds ==
  [][(/\ lastOp'.op \in {"addItem", "addItems", "updateItem", "batchUpdate",
                         "removeItem"}
      /\ DistinctIds(flows[ListKey].currentValue)) =>
        DistinctIds(flows'[ListKey].currentValue)
    ]_vars


---------------------------------------------------------------------------
(* A persisted ListStateFlow: an earlier session may have stored a list    *)
(* under the list's key.  The application updates, adds, removes and reads *)
(* items while the hydrate read and the debounced saves take place.        *)

MaxOpsStored == 2    \* API calls the application issues on a persisted list

\* persistOptions of the list
ListPersistOptions ==
  [given |-> TRUE, enabled |-> "true", storageType |-> Undefined]

InitStored ==
  /\ eventSubscribers = <<>>
  /\ emitEvents = TRUE
  /\ secondHandle = NoHandle
  /\ jobs = NoJobs
  /\ itemAdditionCallbacks = <<>>
  /\ writes = <<>>
  /\ localStorage \in
       {EmptyMap} \cup
       {[x \in {ListKey} |-> JSONstringifyList(list)] : list \in InitialLists}
  /\ \E initialItems \in {<<>>, <<[id |-> 1, name |-> "b"]>>} :
       LET st == NewListStateFlow(EmptyState, initialItems, ListPersistOptions)
       IN /\ flows = st.flows
          /\ persistOptions = st.persistOptions
          /\ debouncedSaveFunctions = st.debouncedSaveFunctions
          /\ timeout = st.timeout
          /\ hydrate = st.hydrate
          /\ nextCell = st.nextCell
          /\ local = st.local
          /\ itemStateFlows = st.itemStateFlows
          /\ pendingItemSubscriptions = st.pendingItemSubscriptions
          /\ pendingClosures = st.pendingClosures
          /\ delivered = st.delivered
          /\ returned = st.returned
          /\ firstInit = st.firstInit
          /\ updated = st.updated
          /\ lastUpdate = st.lastUpdate
          /\ age = st.age
          /\ lastOp = Op("new", ListKey, "", "", initialItems, FALSE)
          /\ calls = st.calls
          /\ emitted = st.emitted
          /\ idb = st.idb
          /\ tornDown = st.tornDown
  /\ nops = MaxOpsStored

NextStored ==
  \/ \E item \in Items : CallAddItem(item)
  \/ \E id \in IdArgs, name \in Names : CallUpdateItem(id, name)
  \/ \E id \in IdArgs : CallRemoveItem(id)
  \/ \E id \in IdArgs : CallGetItem(id)
  \/ HydrateResolve(ListKey)
  \/ \E ok \in BOOLEAN : TimerFire(ListKey, ok)
  \/ Tick

SpecStored == InitStored /\ [][NextStored]_vars

\* getItem(id) in the state a step leaves
GetItemAfter(stringId) ==
  GetItemResult([flows |-> flows', itemStateFlows |-> itemStateFlows'],
                [t |-> "string", v |-> stringId])

\* C28: Every id present in getItems() is updatable.  updateItem(id, fn) on
\* an id the collection holds, however the item came in (the hydrate of a
\* persisted list included), replaces the element of that id in getItems()
\* by fn of it, and getItem(id) is then that element.  Stated for a
\* collection with distinct ids that removeItem was never called on.
C28_PresentIdsUpdatable ==
  [][(/\ lastOp'.op = "updateItem"
      /\ tornDown = {}
      /\ DistinctIds(flows[ListKey].currentValue)
      /\ ListSome(flows[ListKey].currentValue, lastOp'.id)) =>
       LET list == flows[ListKey].currentValue
           id == lastOp'.id
           updatedItem == Updater(lastOp'.arg, ListFind(list, id))
       IN /\ flows'[ListKey].currentValue = ListReplace(list, id, updatedItem)
          /\ GetItemAfter(id) = updatedItem
    ]_vars


---------------------------------------------------------------------------
(* The registry when a caller's deserialize calls GlobalStateFlow for the  *)
(* key whose cell is being constructed.                                    *)

MaxOpsReenter == 2   \* API calls the application issues

ReenterInputs ==
  PersistInputs \cup
  {[given |-> TRUE, enabled |-> "true", storageType |-> Undefined,
    deserialize |-> [initialValue |-> v]] : v \in Values}

InitReenter ==
  /\ InitRegistry
  /\ InitListless
  /\ localStorage \in {EmptyMap, [x \in {"k1"} |-> JSONstringify(MaxVal)]}
  /\ local = NewStateFlow(0)
  /\ delivered = [c \in RegCallbacks |-> <<>>]
  /\ nops = MaxOpsReenter

NextReenter ==
  \/ \E key \in Keys, v \in Values, o \in ReenterInputs :
       CallGlobalStateFlow(key, v, o)
  \/ \E key \in Keys, id \in SubIds, cb \in PersistCallbacks :
       CallSubscribe(key, id, cb)
  \/ \E key \in Keys, v \in Values : CallUpdate(key, v)
  \/ \E key \in Keys : HydrateResolve(key)
  \/ \E key \in Keys, ok \in BOOLEAN : TimerFire(key, ok)
  \/ Tick

SpecReenter == InitReenter /\ [][NextReenter]_vars

\* C25: getOrCreate's check-then-create is atomic under re-entrancy.  Also
\* when a deserialize that runs while the cell of a key is constructed calls
\* GlobalStateFlow for that key, one cell object is created per key (the
\* registry has created as many cells as it holds keys) and all the calls
\* made for the key returned that one object.
C25_AtomicUnderReentrancy ==
  /\ nextCell - 1 = Cardinality(DOMAIN flows)
  /\ \A key \in DOMAIN flows : Cardinality(returned[key]) = 1


\* C29: Every update(v) on a persistence-enabled cell (re)schedules a
\* debounced persist of v, whatever the value subscribers do during the
\* fan-out.  Right after the call the cell holds v and the debounce timer
\* of the key is pending with v and the full debounce interval; and
\* whenever no timer is pending for a persisting cell that was updated, the
\* last write issued under its storage key is the text of the cell's value.
C29_UpdateSchedulesPersist ==
  [][/\ (/\ lastOp'.op = "update"
         /\ lastOp'.key \in debouncedSaveFunctions
         /\ persistOptions[lastOp'.key].enabled) =>
          /\ flows'[lastOp'.key].currentValue = lastOp'.arg
          /\ lastOp'.key \in DOMAIN timeout'
          /\ timeout'[lastOp'.key] =
               [arg |-> lastOp'.arg, wait |-> DebounceTime]
     /\ \A key \in (DOMAIN lastUpdate') \cap debouncedSaveFunctions' :
          key \notin DOMAIN timeout' =>
            \E i \in 1..Len(writes') :
              /\ writes'[i].key = persistOptions'[key].storageKey
              /\ writes'[i].text = Serialize(key, flows'[key].currentValue)
              /\ \A j \in (i + 1)..Len(writes') :
                   writes'[j].key # writes'[i].key
    ]_vars


\* C30: Hydrate success ordering.  When the hydrate read of a cell returns a
\* stored value s, the cell is updated to s with every value subscriber
\* notified with s, and the registry then emits exactly two events, in this
\* order: LOADED_FROM_STORAGE carrying s and INITIAL_LOAD_COMPLETE.  This
\* happens at most once per cell: the read is then no longer pending, and a
\* read only becomes pending in the call that creates the cell.
C30_HydrateSuccessOrdering ==
  [][/\ \A key \in DOMAIN hydrate :
          (/\ lastOp'.op = "hydrate" /\ lastOp'.key = key
           /\ hydrate[key].present) =>
            LET s == hydrate[key].value
            IN /\ flows'[key].currentValue = s
               /\ calls' = Invocations(flows[key].subscribers, s)
               /\ Len(emitted') = 2
               /\ emitted'[1] = Event("LOADED_FROM_STORAGE", key, s)
               /\ emitted'[2].type = "INITIAL_LOAD_COMPLETE"
               /\ emitted'[2].key = key
               /\ key \notin DOMAIN hydrate'
     /\ \A key \in (DOMAIN hydrate') \ (DOMAIN hydrate) :
          key \notin DOMAIN flows
    ]_vars


---------------------------------------------------------------------------
(* A ListStateFlow constructed with or without emitEvents, with its        *)
(* subscribers, one event subscriber and its onItemAdded callbacks         *)
(* registered before items are added, updated and removed.                 *)

MaxOpsEvents == 3    \* API calls the application issues after subscribing

\* the onItemAdded callbacks registered: one, or a throwing one followed by
\* one that does not throw
AdditionInputs ==
  {<<[uniqueId |-> "s1", callback |-> "acb"]>>,
   <<[uniqueId |-> "s1", callback |-> "acbThrow"],
     [uniqueId |-> "s2", callback |-> "acb"]>>}

InitEvents ==
  /\ eventSubscribers = <<[uniqueId |-> "s1", callback |-> "ecb"]>>
  /\ emitEvents \in BOOLEAN
  /\ secondHandle = NoHandle
  /\ jobs = NoJobs
  /\ itemAdditionCallbacks \in AdditionInputs
  /\ localStorage = EmptyMap
  /\ writes = <<>>
  /\ \E initialItems \in InitialLists :
       LET st == Subscribed(initialItems)
       IN /\ flows = st.flows
          /\ persistOptions = st.persistOptions
          /\ debouncedSaveFunctions = st.debouncedSaveFunctions
          /\ timeout = st.timeout
          /\ hydrate = st.hydrate
          /\ nextCell = st.nextCell
          /\ local = st.local
          /\ itemStateFlows = st.itemStateFlows
          /\ pendingItemSubscriptions = st.pendingItemSubscriptions
          /\ pendingClosures = st.pendingClosures
          /\ delivered = st.delivered
          /\ returned = st.returned
          /\ firstInit = st.firstInit
          /\ updated = st.updated
          /\ lastUpdate = st.lastUpdate
          /\ age = st.age
          /\ lastOp = Op("new", ListKey, "", "", initialItems, FALSE)
          /\ calls = st.calls
          /\ emitted = st.emitted
          /\ idb = st.idb
          /\ tornDown = st.tornDown
  /\ nops = MaxOpsEvents

NextEvents ==
  \/ \E item \in Items : CallAddItem(item)
  \/ \E id \in IdArgs, name \in Names : CallUpdateItem(id, name)
  \/ \E id \in IdArgs : CallRemoveItem(id)

SpecEvents == InitEvents /\ [][NextEvents]_vars

\* the invocations of the callbacks in cbs among those of the last step
CallsOf(cbs) == SelectSeq(calls', LAMBDA c : c.callback \in cbs)

\* C31: addItem event discipline.  addItem(x) with an id that getItems()
\* does not hold emits exactly one event, ITEM_ADDED carrying x, and invokes
\* each registered onItemAdded callback exactly once, with x; addItem(x)
\* with an id that getItems() holds emits exactly one event, ITEM_UPDATED,
\* and invokes no onItemAdded callback; with emitEvents false no event is
\* emitted in either case.
C31_AddItemEventDiscipline ==
  [][lastOp'.op = "addItem" =>
       LET x == lastOp'.arg
           present == ListSome(GetItems(St), lastOp'.id)
           events == CallsOf(ListEventCallbacks)
           additions ==
             CallsOf(AdditionCallbacks \cup ThrowingAdditionCallbacks)
       IN /\ ~emitEvents => events = <<>>
          /\ emitEvents =>
               /\ Len(events) = Len(eventSubscribers)
               /\ \A i \in 1..Len(events) :
                    /\ events[i].arg.type =
                         (IF present THEN "ITEM_UPDATED" ELSE "ITEM_ADDED")
                    /\ ~present => events[i].arg.item = x
          /\ additions = (IF present THEN <<>>
                          ELSE Invocations(itemAdditionCallbacks, x))
    ]_vars


\* C38: A throwing item-added callback does not break addItem.  When
\* addItem(x) adds an id the list does not hold (nothing was removed before
\* and no value subscriber throws) and a registered onItemAdded callback
\* throws, every onItemAdded callback is still invoked with x, ITEM_ADDED
\* still reaches the event subscribers, the pending subscriptions of the id
\* are activated with x, and getItems() and the cell of the item hold x.
C38_ThrowingAdditionCallback ==
  [][(/\ lastOp'.op = "addItem"
      /\ tornDown = {}
      /\ ~ListSome(GetItems(St), lastOp'.id)
      /\ FirstThrow(itemAdditionCallbacks) # 0) =>
       LET x == lastOp'.arg
           id == lastOp'.id
           pending == IF id \in DOMAIN pendingItemSubscriptions
                      THEN pendingItemSubscriptions[id] ELSE <<>>
       IN /\ CallsOf(AdditionCallbacks \cup ThrowingAdditionCallbacks) =
               Invocations(itemAdditionCallbacks, x)
          /\ emitEvents =>
               CallsOf(ListEventCallbacks) =
                 Invocations(eventSubscribers,
                             [type |-> "ITEM_ADDED", item |-> x])
          /\ id \notin DOMAIN pendingItemSubscriptions'
          /\ CallsOf(ItemCallbacks) = Invocations(pending, x)
          /\ ListSome(flows'[ListKey].currentValue, id)
          /\ ListFind(flows'[ListKey].currentValue, id) = x
          /\ id \in DOMAIN itemStateFlows'
          /\ flows'[itemStateFlows'[id]].currentValue = x
    ]_vars


\* C32: Hydrate never discards a caller's write.  When update(v) was called
\* on a persistence-enabled cell while its hydrate read was pending and the
\* read then resolves with a stored value s, getValue() is still v after
\* the resolve, and the value the pending persist will write is v, not s.
C32_HydrateKeepsCallersWrite ==
  [][\A key \in DOMAIN hydrate :
       (/\ lastOp'.op = "hydrate" /\ lastOp'.key = key
        /\ hydrate[key].present
        /\ key \in updated) =>
         /\ flows'[key].currentValue = flows[key].currentValue
         /\ key \in DOMAIN timeout' =>
              timeout'[key].arg = flows[key].currentValue
    ]_vars


\* C39: Fan-out completeness for local cells.  update(v) on the cell made by
\* StateFlow(initial) never throws to its caller and invokes every registered
\* value subscriber exactly once with v, in registration order, also when
\* earlier subscribers throw; afterwards the cell holds v and its
\* subscribers are registered as before, whatever happened in earlier
\* updates.
C39_FanOutCompleteLocal ==
  [][(lastOp'.op = "update" /\ lastOp'.key = "local") =>
       /\ ~lastOp'.threw
       /\ CallsOf(Callbacks) = Invocations(local.subscribers, lastOp'.arg)
       /\ \A cb \in Callbacks :
            Len(delivered'[cb]) =
              Len(delivered[cb]) + Cardinality(IdsHolding(local.subscribers, cb))
       /\ local'.currentValue = lastOp'.arg
       /\ local'.subscribers = local.subscribers
    ]_vars

\* an update of the local cell reached a subscriber registered after one
\* that throws
C39_Witness ==
  /\ lastOp.op = "update"
  /\ lastOp.key = "local"
  /\ \E i, j \in 1..Len(calls) :
       /\ i < j
       /\ Throws(calls[i].callback)
       /\ ~Throws(calls[j].callback)
       /\ calls[j].arg = lastOp.arg
       /\ calls[j].callback \in Callbacks


\* C36: unsubscribe(id), and the closure subscribe(id, cb1) returned, remove
\* by id, not by callback identity.  The call removes the entry held under
\* id whatever callback it holds now, so getSubscriberCount() drops by one
\* when id is registered, invokes no callback, and changes nothing when id
\* is not registered; and an update only invokes callbacks that are held
\* under a registered id, so the removed callback receives no further
\* updates.
C36_ClosureRemovesById ==
  [][/\ lastOp'.op = "unsubscribe" =>
          LET before == SubscribersOf(lastOp'.key)
              after == SubscribersAfter(lastOp'.key)
          IN /\ after = MapDelete(before, lastOp'.id)
             /\ ~MapHas(after, lastOp'.id)
             /\ Len(after) =
                  Len(before) - (IF MapHas(before, lastOp'.id) THEN 1 ELSE 0)
             /\ ~MapHas(before, lastOp'.id) => after = before
             /\ ValueAfter(lastOp'.key) = ValueOf(lastOp'.key)
             /\ calls' = <<>>
             /\ delivered' = delivered
     /\ lastOp'.op = "update" =>
          \A i \in 1..Len(calls') :
            calls'[i].callback \in Callbacks =>
              IdsHolding(SubscribersOf(lastOp'.key), calls'[i].callback) # {}
    ]_vars

\* the local cell after subscribe(id, cb1), subscribe(id, cb2) and a call of
\* the closure the first subscribe returned: the entry holding cb2 is gone
C36_Witness ==
  /\ lastOp.op = "unsubscribe"
  /\ lastOp.key = "local"
  /\ local.subscribers = <<>>
  /\ flows = EmptyMap
  /\ nops = 0
  /\ \E cb1, cb2 \in Callbacks :
       /\ cb1 # cb2
       /\ Len(delivered[cb1]) = 1
       /\ Len(delivered[cb2]) = 1


---------------------------------------------------------------------------
(* The registry under an application that also disposes cells.             *)

MaxOpsDispose == 3   \* API calls the application issues

\* flow.dispose() on the cell of key
CallStateFlowDispose(key) ==
  /\ key \in DOMAIN flows
  /\ Call([StateFlowDispose(St, key) EXCEPT !.tornDown = @ \cup {key}],
          Op("dispose", key, "", "", 0, FALSE))

InitDispose ==
  /\ InitRegistry
  /\ InitListless
  /\ localStorage \in {EmptyMap, [x \in {"k1"} |-> JSONstringify(MaxVal)]}
  /\ local = NewStateFlow(0)
  /\ delivered = [c \in RegCallbacks |-> <<>>]
  /\ nops = MaxOpsDispose

NextDispose ==
  \/ \E key \in Keys, v \in Values, o \in PersistInputs :
       CallGlobalStateFlow(key, v, o)
  \/ \E key \in Keys, id \in SubIds, cb \in PersistCallbacks :
       CallSubscribe(key, id, cb)
  \/ \E key \in Keys, v \in Values : CallUpdate(key, v)
  \/ \E key \in Keys : CallStateFlowDispose(key)
  \/ \E key \in Keys : HydrateResolve(key)
  \/ \E key \in Keys, ok \in BOOLEAN : TimerFire(key, ok)
  \/ Tick

SpecDispose == InitDispose /\ [][NextDispose]_vars

\* C34: A disposed registry cell is not reused.  After dispose() on the
\* cell of a key, update on that cell invokes no callback and schedules no
\* backend write, and a later GlobalStateFlow(key, v2) returns a cell whose
\* value is v2.
C34_DisposedCellNotReused ==
  [][/\ (lastOp'.op = "update" /\ lastOp'.key \in tornDown) =>
          /\ calls' = <<>>
          /\ timeout' = timeout
     /\ (lastOp'.op = "GlobalStateFlow" /\ lastOp'.key \in tornDown) =>
          flows'[lastOp'.key].currentValue = lastOp'.arg
    ]_vars


---------------------------------------------------------------------------
(* Two handles for one list key: src/src/GlobalListStateFlow.ts.           *)
(* GlobalListStateFlow(key, initialItems, options) returns                 *)
(* `new ListStateFlow(key, initialItems, options)` on every call, so the   *)
(* two handles share the cells of the registry and nothing else.  The      *)
(* first handle is subscribed to as in Subscribed; the second is made      *)
(* afterwards and nothing is registered through it.                        *)

MaxOpsHandles == 3   \* API calls issued through the two handles

\* the constructor of the second handle, run on the state the first handle
\* left: the list cell exists already, the instance's own map is filled
\* from its initialItems, and INITIAL_LOAD_COMPLETE finds no subscriber of
\* the new instance
SecondNewListStateFlow(st, initialItems) ==
  InitializeItemFlows(GetOrCreate(st, ListKey, initialItems, NoOptions),
                      initialItems)

\* the state as the second handle sees it: the registry, and its own
\* itemStateFlows and (empty) pendingItemSubscriptions
SecondSt ==
  [St EXCEPT !.itemStateFlows = secondHandle.itemStateFlows,
             !.pendingItemSubscriptions = EmptyMap]

\* addItem on the second handle: its itemAdditionCallbacks, eventSubscribers
\* and pendingItemSubscriptions are empty, so the two forEach loops and the
\* activation of pending subscriptions reach nothing
SecondAddItem(st, item) ==
  LET id == IdString(item)
      currentList == GetItems(st)
  IN IF id \in DOMAIN st.itemStateFlows /\ ListSome(currentList, id)
     THEN StateFlowUpdate(st, st.itemStateFlows[id], item)
     ELSE LET a == GetOrCreate(st, ItemKey(id), item, NoOptions)
              b == [a EXCEPT !.itemStateFlows = FnSet(@, id, ItemKey(id))]
          IN StateFlowUpdate(b, ListKey, Append(currentList, item))

\* a call through the second handle: the registry changes, the maps of the
\* first handle do not
CallSecond(st, op) ==
  /\ nops > 0
  /\ Commit([st EXCEPT !.itemStateFlows = itemStateFlows,
                       !.pendingItemSubscriptions = pendingItemSubscriptions])
  /\ secondHandle' = [itemStateFlows |-> st.itemStateFlows]
  /\ lastOp' = op
  /\ nops' = nops - 1
  /\ UNCHANGED <<localStorage, itemAdditionCallbacks, eventSubscribers,
                 emitEvents, jobs, writes>>

CallSecondAddItem(item) ==
  LET st == SecondAddItem(SecondSt, item)
  IN CallSecond(st, Op("secondAddItem", ListKey, IdString(item), "", item,
                       st.threw))

CallSecondGetItem(id) ==
  CallSecond(GetItem(SecondSt, id),
             Op("secondGetItem", ListKey, StringOf(id), "",
                GetItemResult(SecondSt, id), FALSE))

InitHandles ==
  /\ eventSubscribers = <<[uniqueId |-> "s1", callback |-> "ecb"]>>
  /\ emitEvents = TRUE
  /\ jobs = NoJobs
  /\ itemAdditionCallbacks = <<[uniqueId |-> "s1", callback |-> "acb"]>>
  /\ localStorage = EmptyMap
  /\ writes = <<>>
  /\ \E initialItems \in InitialLists, secondItems \in InitialLists :
       LET first == Subscribed(initialItems)
           st == SecondNewListStateFlow(first, secondItems)
       IN /\ flows = st.flows
          /\ persistOptions = st.persistOptions
          /\ debouncedSaveFunctions = st.debouncedSaveFunctions
          /\ timeout = st.timeout
          /\ hydrate = st.hydrate
          /\ nextCell = st.nextCell
          /\ local = st.local
          /\ itemStateFlows = first.itemStateFlows
          /\ pendingItemSubscriptions = first.pendingItemSubscriptions
          /\ secondHandle = [itemStateFlows |-> st.itemStateFlows]
          /\ pendingClosures = st.pendingClosures
          /\ delivered = st.delivered
          /\ returned = st.returned
          /\ firstInit = st.firstInit
          /\ updated = st.updated
          /\ lastUpdate = st.lastUpdate
          /\ age = st.age
          /\ lastOp = Op("new", ListKey, "", "", secondItems, FALSE)
          /\ calls = st.calls
          /\ emitted = st.emitted
          /\ idb = st.idb
          /\ tornDown = st.tornDown
  /\ nops = MaxOpsHandles

NextHandles ==
  \/ \E item \in Items : CallAddItem(item)
  \/ \E item \in Items : CallSecondAddItem(item)
  \/ \E id \in IdArgs : CallGetItem(id)
  \/ \E id \in IdArgs : CallSecondGetItem(id)

SpecHandles == InitHandles /\ [][NextHandles]_vars

\* whether getItem(id) returns an item rather than undefined
GetItemFinds(st, id) ==
  \/ StringOf(id) \in DOMAIN st.itemStateFlows
  \/ ListSome(GetItems(st), StringOf(id))

\* C35: Handles for the same list key are observationally one list.  After
\* every call issued through either handle getItem(id) returns the same on
\* both (getItems() reads the one list cell), so the initialItems of the
\* second call have no effect; and when an item whose id the list does not
\* hold is added through the second handle, the onItemAdded callbacks and
\* the event subscribers registered through the first are invoked with it
\* and the first handle's pending subscriptions of the id are activated.
C35_HandlesAreOneList ==
  [][/\ \A id \in IdArgs :
          /\ GetItemFinds(St', id) = GetItemFinds(SecondSt', id)
          /\ GetItemFinds(St', id) =>
               GetItemResult(St', id) = GetItemResult(SecondSt', id)
     /\ (/\ lastOp'.op = "secondAddItem"
         /\ ~ListSome(GetItems(St), lastOp'.id)) =>
          /\ CallsOf(AdditionCallbacks) =
               Invocations(itemAdditionCallbacks, lastOp'.arg)
          /\ CallsOf(ListEventCallbacks) =
               Invocations(eventSubscribers,
                           [type |-> "ITEM_ADDED", item |-> lastOp'.arg])
          /\ lastOp'.id \notin DOMAIN pendingItemSubscriptions'
    ]_vars


---------------------------------------------------------------------------
(* Re-entrant writes: a subscriber whose callback calls update on the cell *)
(* it is subscribed to, while the fan-out of an update is running.         *)
(* src/src/GlobalStateFlow.ts 333-346 and src/unnamed/part_022 56-78: the  *)
(* forEach of the outer update goes on with its own newValue after the     *)
(* inner update returned.                                                  *)

MaxOpsConverge == 4  \* API calls the application issues

\* the value the re-entrant callback writes, and the callback: handed a
\* value other than ReenterValue it calls update(ReenterValue) on its cell
ReenterValue == 0
ReentrantCallbacks == {"cbReenter"}
ConvergeCallbacks == {"cb1"} \cup ReentrantCallbacks

\* stateFlow.update of a registry cell, the callbacks run one by one
RECURSIVE FanOut(_, _, _, _)
RECURSIVE UpdateReentrant(_, _, _)
FanOut(st, key, m, v) ==
  IF m = <<>> \/ st.threw THEN st
  ELSE
    LET cb == Head(m).callback
        st1 == [st EXCEPT
                  !.delivered[cb] = Append(@, v),
                  !.calls = Append(@, [callback |-> cb, arg |-> v])]
        st2 == IF Throws(cb) THEN [st1 EXCEPT !.threw = TRUE]
               ELSE IF cb \in ReentrantCallbacks /\ v # ReenterValue
                    THEN UpdateReentrant(st1, key, ReenterValue)
                    ELSE st1
    IN FanOut(st2, key, Tail(m), v)
UpdateReentrant(st, key, newValue) ==
  IF st.threw THEN st
  ELSE
    LET st1 == [st EXCEPT
                  !.flows[key].currentValue = newValue,
                  !.updated = @ \cup {key},
                  !.lastUpdate = FnSet(@, key, [value |-> newValue,
                                                writes |-> 0]),
                  !.age = IF key \in st.debouncedSaveFunctions
                          THEN FnSet(@, key, 0) ELSE @]
        st2 == FanOut(st1, key, st.flows[key].subscribers, newValue)
    IN IF st2.threw THEN st2
       ELSE IF /\ key \in DOMAIN st.persistOptions
               /\ st.persistOptions[key].enabled
               /\ key \in st.debouncedSaveFunctions
            THEN DebouncedSave(st2, key, newValue)
            ELSE st2

\* update of the local cell, the callbacks run one by one inside try/catch,
\* then VALUE_UPDATED goes to the event subscribers
RECURSIVE LocalFanOut(_, _, _)
RECURSIVE LocalUpdateReentrant(_, _)
LocalFanOut(st, m, v) ==
  IF m = <<>> THEN st
  ELSE
    LET cb == Head(m).callback
        st1 == [st EXCEPT
                  !.delivered[cb] = Append(@, v),
                  !.calls = Append(@, [callback |-> cb, arg |-> v])]
        st2 == IF cb \in ReentrantCallbacks /\ v # ReenterValue
               THEN LocalUpdateReentrant(st1, ReenterValue)
               ELSE st1
    IN LocalFanOut(st2, Tail(m), v)
LocalUpdateReentrant(st, newValue) ==
  LET ev == [type |-> "VALUE_UPDATED", key |-> "stateflow",
             value |-> newValue]
      st1 == LocalFanOut([st EXCEPT !.local.currentValue = newValue],
                         st.local.subscribers, newValue)
  IN [st1 EXCEPT
        !.delivered = DeliverAll(@, st.local.eventSubscribers, ev),
        !.calls = @ \o Invocations(st.local.eventSubscribers, ev)]

CallUpdateReentrant(key, newValue) ==
  /\ key \in DOMAIN flows
  /\ LET st == UpdateReentrant(St, key, newValue)
     IN Call(st, Op("update", key, "", "", newValue, st.threw))

CallLocalUpdateReentrant(newValue) ==
  Call(LocalUpdateReentrant(St, newValue),
       Op("update", "local", "", "", newValue, FALSE))

\* an empty registry and one local cell; the re-entrant callback is
\* subscribed while the cell holds the value it writes, so the replay of the
\* current value makes it write nothing
InitConverge ==
  /\ InitRegistry
  /\ InitListless
  /\ localStorage = EmptyMap
  /\ local = NewStateFlow(ReenterValue)
  /\ delivered = [c \in RegCallbacks \cup ReentrantCallbacks |-> <<>>]
  /\ nops = MaxOpsConverge

NextConverge ==
  \/ CallGlobalStateFlow("k1", ReenterValue, NoOptions)
  \/ \E id \in SubIds, cb \in ConvergeCallbacks :
       /\ "k1" \in DOMAIN flows
       /\ flows["k1"].currentValue = ReenterValue
       /\ CallSubscribe("k1", id, cb)
  \/ \E v \in Values : CallUpdateReentrant("k1", v)
  \/ \E id \in SubIds, cb \in ConvergeCallbacks :
       /\ local.currentValue = ReenterValue
       /\ CallLocalSubscribe(id, cb)
  \/ \E v \in Values : CallLocalUpdateReentrant(v)

SpecConverge == InitConverge /\ [][NextConverge]_vars

\* the value the last invocation of cb in the last step was given
LastGiven(cb) == CallsOf({cb})[Len(CallsOf({cb}))].arg

\* C33: Subscribers converge on the current value under re-entrant writes.
\* When an outermost update on a cell has returned, the value most recently
\* delivered to each registered subscriber equals getValue(), also when a
\* subscriber's callback called update on the same cell during the fan-out.
C33_SubscribersConverge ==
  [][lastOp'.op = "update" =>
       LET subs == IF lastOp'.key = "local" THEN local'.subscribers
                   ELSE flows'[lastOp'.key].subscribers
           current == IF lastOp'.key = "local" THEN local'.currentValue
                      ELSE flows'[lastOp'.key].currentValue
       IN \A i \in 1..Len(subs) : LastGiven(subs[i].callback) = current
    ]_vars


---------------------------------------------------------------------------
(* Cells persisted in IndexedDB under different object stores of one       *)
(* database: src/src/GlobalStateFlow.ts, IndexedDBUtil.  Every request     *)
(* the browser answers succeeds, and IndexedDB exists.                     *)

MaxOpsStores == 3    \* API calls the application issues

\* persistence options that choose the IndexedDB backend, with the default
\* object store or with one the application names
StoreInputs ==
  {[given |-> TRUE, enabled |-> "true", storageType |-> "indexedDB"],
   [given |-> TRUE, enabled |-> "true", storageType |-> "indexedDB",
    storeName |-> OtherStoreName]}

InitStores ==
  /\ InitRegistry
  /\ InitListless
  /\ localStorage = EmptyMap
  /\ local = NewStateFlow(0)
  /\ delivered = [c \in RegCallbacks |-> <<>>]
  /\ nops = MaxOpsStores

NextStores ==
  \/ \E key \in Keys, v \in Values, o \in StoreInputs :
       CallGlobalStateFlow(key, v, o)
  \/ \E key \in Keys, v \in Values : CallUpdate(key, v)
  \/ \E key \in Keys : HydrateResolve(key)
  \/ \E key \in Keys : TimerFire(key, TRUE)
  \/ IdbOpenDone(TRUE)
  \/ IdbRequestDone(TRUE)
  \/ Tick

SpecStores == InitStores /\ [][NextStores]_vars

\* the get or put requests of kind for the cell of key that wait for the
\* database to open or for the answer of the store
Waiting(db, kind, key) ==
  {i \in 1..Len(db.opening) :
     db.opening[i].waiter.kind = kind /\ db.opening[i].waiter.key = key}
Inflight(db, kind, key) ==
  {i \in 1..Len(db.inflight) :
     db.inflight[i].waiter.kind = kind /\ db.inflight[i].waiter.key = key}

\* C37: Every cell configured with the asynchronous backend can hydrate
\* and persist at its own (dbName, storeName, storageKey) address, whatever
\* other cells share dbName.  When the backend answers every request, the
\* hydrate read of a new cell is not rejected, the save of a cell puts its
\* value on the way to the store (waiting for the database or in flight),
\* and a request that waited for the database is in flight once the
\* database is open.
C37_OwnStoreAddress ==
  [][/\ (/\ lastOp'.op = "GlobalStateFlow"
         /\ lastOp'.key \notin DOMAIN flows) =>
          /\ lastOp'.key \notin DOMAIN hydrate'
          /\ Waiting(idb', "get", lastOp'.key)
               \cup Inflight(idb', "get", lastOp'.key) # {}
     /\ lastOp'.op = "save" =>
          Cardinality(Waiting(idb', "put", lastOp'.key))
            + Cardinality(Inflight(idb', "put", lastOp'.key))
          > Cardinality(Waiting(idb, "put", lastOp'.key))
            + Cardinality(Inflight(idb, "put", lastOp'.key))
     /\ lastOp'.op = "open" =>
          /\ lastOp'.key \notin DOMAIN hydrate'
          /\ Len(idb'.inflight) = Len(idb.inflight) + 1
    ]_vars


---------------------------------------------------------------------------
(* Job: src/unnamed/part_023 74-185.  Three jobs are constructed; the      *)
(* application makes them children of one another, registers onCancel      *)
(* callbacks, cancels and completes them.  `jobs.job` holds the fields of  *)
(* every Job (the Set of children as the sequence of its insertion order), *)
(* `jobs.registered` every onCancel registration and `jobs.ran` every run  *)
(* of an onCancel callback so far, `jobs.added` the pairs <<parent, child>>*)
(* addChild stored, and `jobs.threw` whether the call under way has thrown.*)

MaxOpsJobs == 4      \* API calls the application issues on the jobs

JobIds == {"j1", "j2", "j3"}

\* the callbacks handed to onCancel: one that returns and one that throws
CancelCallbacks == {"oc1", "ocThrow"}

\* new Job()
NewJob ==
  [cancelled |-> FALSE, completed |-> FALSE, children |-> <<>>,
   onCancelCallbacks |-> <<>>, onCompleteCallbacks |-> <<>>]

\* get isActive
IsActive(job) == ~job.cancelled /\ ~job.completed

\* Set.add and Set.delete on the insertion-ordered children
SetAdd(seq, x) ==
  IF \E i \in 1..Len(seq) : seq[i] = x THEN seq ELSE Append(seq, x)
SetDelete(seq, x) == SelectSeq(seq, LAMBDA y : y # x)

\* one onCancel callback of job j is called
RunCancelCallback(js, j, cb) ==
  IF js.threw THEN js
  ELSE [js EXCEPT !.ran = Append(@, <<j, cb>>), !.threw = Throws(cb)]

\* this._onCancelCallbacks.forEach(callback => callback())
RECURSIVE RunCancelCallbacks(_, _, _)
RunCancelCallbacks(js, j, cbs) ==
  IF cbs = <<>> THEN js
  ELSE RunCancelCallbacks(RunCancelCallback(js, j, Head(cbs)), j, Tail(cbs))

\* cancel
RECURSIVE JobCancel(_, _)
RECURSIVE CancelChildren(_, _)
CancelChildren(js, children) ==
  IF children = <<>> \/ js.threw THEN js
  ELSE CancelChildren(JobCancel(js, Head(children)), Tail(children))
JobCancel(js, j) ==
  IF js.threw \/ js.job[j].cancelled \/ js.job[j].completed THEN js
  ELSE
    LET js1 == [js EXCEPT !.job[j].cancelled = TRUE]
        js2 == CancelChildren(js1, js1.job[j].children)
        js3 == IF js2.threw THEN js2
               ELSE [js2 EXCEPT !.job[j].children = <<>>]
        js4 == RunCancelCallbacks(js3, j, js3.job[j].onCancelCallbacks)
    IN IF js4.threw THEN js4
       ELSE [js4 EXCEPT !.job[j].onCancelCallbacks = <<>>]

\* the callback addChild registers with child.onComplete
RemoveChild(js, parent, child) ==
  [js EXCEPT !.job[parent].children = SetDelete(@, child)]

\* this._onCompleteCallbacks.forEach(callback => callback()): every entry
\* is the parent whose addChild registered it
RECURSIVE RunCompleteCallbacks(_, _, _)
RunCompleteCallbacks(js, j, parents) ==
  IF parents = <<>> THEN js
  ELSE RunCompleteCallbacks(RemoveChild(js, Head(parents), j), j,
                            Tail(parents))

\* complete
JobComplete(js, j) ==
  IF js.job[j].cancelled \/ js.job[j].completed THEN js
  ELSE
    LET js1 == [js EXCEPT !.job[j].completed = TRUE]
        js2 == RunCompleteCallbacks(js1, j, js1.job[j].onCompleteCallbacks)
    IN [js2 EXCEPT !.job[j].onCompleteCallbacks = <<>>]

\* onCancel
JobOnCancel(js, j, cb) ==
  LET js1 == [js EXCEPT !.registered = Append(@, <<j, cb>>)]
  IN IF js.job[j].cancelled THEN RunCancelCallback(js1, j, cb)
     ELSE [js1 EXCEPT !.job[j].onCancelCallbacks = Append(@, cb)]

\* onComplete, called by addChild of parent
JobOnComplete(js, j, parent) ==
  IF js.job[j].completed THEN RemoveChild(js, parent, j)
  ELSE [js EXCEPT !.job[j].onCompleteCallbacks = Append(@, parent)]

\* addChild
JobAddChild(js, parent, child) ==
  IF js.job[parent].cancelled THEN JobCancel(js, child)
  ELSE JobOnComplete(
         [js EXCEPT !.job[parent].children = SetAdd(@, child),
                    !.added = @ \cup {<<parent, child>>}],
         child, parent)

\* a call on the jobs: nothing else changes
JobCall(js, op) ==
  /\ nops > 0
  /\ jobs' = js
  /\ lastOp' = op
  /\ nops' = nops - 1
  /\ UNCHANGED <<flows, persistOptions, debouncedSaveFunctions, timeout,
                 hydrate, localStorage, age, nextCell, local, itemStateFlows,
                 pendingItemSubscriptions, itemAdditionCallbacks,
                 eventSubscribers, emitEvents, secondHandle, pendingClosures,
                 delivered, writes, returned, firstInit, updated, lastUpdate,
                 calls, emitted, idb, tornDown>>

\* the state of the jobs when a call starts
Js == [jobs EXCEPT !.threw = FALSE]

CallJobAddChild(parent, child) ==
  LET js == JobAddChild(Js, parent, child)
  IN JobCall(js, Op("addChild", parent, child, "", 0, js.threw))

CallJobCancel(j) ==
  LET js == JobCancel(Js, j)
  IN JobCall(js, Op("cancel", j, "", "", 0, js.threw))

CallJobComplete(j) ==
  JobCall(JobComplete(Js, j), Op("complete", j, "", "", 0, FALSE))

CallJobOnCancel(j, cb) ==
  LET js == JobOnCancel(Js, j, cb)
  IN JobCall(js, Op("onCancel", j, "", cb, 0, js.threw))

InitJobs ==
  /\ InitRegistry
  /\ eventSubscribers = <<>>
  /\ emitEvents = TRUE
  /\ secondHandle = NoHandle
  /\ itemStateFlows = EmptyMap
  /\ pendingItemSubscriptions = EmptyMap
  /\ itemAdditionCallbacks = <<>>
  /\ pendingClosures = {}
  /\ localStorage = EmptyMap
  /\ local = NewStateFlow(0)
  /\ delivered = [c \in RegCallbacks |-> <<>>]
  /\ jobs = [job |-> [j \in JobIds |-> NewJob], registered |-> <<>>,
             ran |-> <<>>, added |-> {}, threw |-> FALSE]
  /\ nops = MaxOpsJobs

NextJobs ==
  \/ \E parent \in JobIds : \E child \in JobIds \ {parent} :
       CallJobAddChild(parent, child)
  \/ \E j \in JobIds : CallJobCancel(j)
  \/ \E j \in JobIds : CallJobComplete(j)
  \/ \E j \in JobIds, cb \in CancelCallbacks : CallJobOnCancel(j, cb)

SpecJobs == InitJobs /\ [][NextJobs]_vars

\* how often x occurs in the sequence seq
Count(seq, x) == Cardinality({i \in 1..Len(seq) : seq[i] = x})

\* C40: Job cancellation is structural and terminal.  After cancel() on an
\* active job, the job and every child added before and not completed are
\* cancelled; a child added to a cancelled job is cancelled at once; every
\* onCancel callback registered on a cancelled job has run exactly once;
\* no job is both cancelled and completed; cancel and complete change
\* nothing on a job that is cancelled or completed.
C40_CancellationStructuralTerminal ==
  [][/\ (lastOp'.op = "cancel" /\ IsActive(jobs.job[lastOp'.key])) =>
          /\ jobs'.job[lastOp'.key].cancelled
          /\ \A child \in JobIds :
               (/\ <<lastOp'.key, child>> \in jobs.added
                /\ ~jobs.job[child].completed) =>
                 jobs'.job[child].cancelled
     /\ (/\ lastOp'.op = "addChild"
         /\ jobs.job[lastOp'.key].cancelled
         /\ IsActive(jobs.job[lastOp'.id])) =>
          jobs'.job[lastOp'.id].cancelled
     /\ \A j \in JobIds, cb \in CancelCallbacks :
          /\ jobs'.job[j].cancelled =>
               Count(jobs'.ran, <<j, cb>>) = Count(jobs'.registered, <<j, cb>>)
          /\ ~jobs'.job[j].cancelled => Count(jobs'.ran, <<j, cb>>) = 0
     /\ \A j \in JobIds : ~(jobs'.job[j].cancelled /\ jobs'.job[j].completed)
     /\ (/\ lastOp'.op \in {"cancel", "complete"}
         /\ ~IsActive(jobs.job[lastOp'.key])) =>
          /\ jobs'.job = jobs.job
          /\ jobs'.ran = jobs.ran
    ]_vars

====
